---------------------------- MODULE Spec2Model ----------------------------
(***************************************************************************)
(* Model of the fabric generation engine of fab_gen.py (FabricGenerator):  *)
(* main, which loads the three documents, runs validate_inputs and the     *)
(* stages of generate_fabric in program order, and then writes the output. *)
(*                                                                         *)
(* Lengths are integers: the site width and height are integer numbers of  *)
(* length units, so every coordinate of a cell instance (a sum of integer  *)
(* multiples of the site size and the margins) is an integer of the model. *)
(* Pin coordinates are quotients (half a pin size, a span divided by the   *)
(* number of pins plus one) and are kept as fractions in lowest terms.     *)
(* Optional fields (None in the source) are records with present = FALSE.  *)
(***************************************************************************)
EXTENDS Integers, Sequences, FiniteSets, TLC

VARIABLES
    technology,           \* FabricGenerator.technology
    tile_definitions,     \* FabricGenerator.tile_definitions (the list of tiles)
    fabric_config,        \* FabricGenerator.fabric_config
    tile_array,           \* FabricGenerator.tile_array
    dimensions,           \* FabricGenerator.dimensions
    cell_instances,       \* FabricGenerator.cell_instances
    edge_cell_instances,  \* FabricGenerator.edge_cell_instances
    placed_pins,          \* FabricGenerator.placed_pins
    stats,                \* FabricGenerator.stats
    args,                 \* the command line of main (the flags the run reads)
    output,               \* the output directory and the files written into it
    exit_code,            \* what main returned, NotReturned while it runs
    pc,                   \* the next step of main / generate_fabric to run
    err                   \* "none", or the exception that ended the run

vars == <<technology, tile_definitions, fabric_config, tile_array, dimensions,
          cell_instances, edge_cell_instances, placed_pins, stats, args, output,
          exit_code, pc, err>>

---------------------------------------------------------------------------
(* Bounds of the checked inputs *)

SiteW == 2          \* site width, in length units
SiteH == 3          \* site height, in length units
MaxArrayRows == 2   \* array_dimensions.rows ranges over 1..MaxArrayRows
MaxArrayCols == 2   \* array_dimensions.cols ranges over 1..MaxArrayCols
MaxCount == 2       \* CellSpec.count ranges over 1..MaxCount
MaxEdgeSize == 2    \* width and height in sites of the varied edge cell
MaxTileWidth == 3   \* a varied tile declares a width in 2..MaxTileWidth
MarginH == 1        \* margins.horizontal where margins are configured
MarginV == 2        \* margins.vertical where margins are configured
MaxPins == 3        \* an auto-spacing edge declares 0..MaxPins pins

---------------------------------------------------------------------------
(* Data model *)

\* PowerInfo; present = FALSE is Cell.power = None (the dataclass default)
PowerInfo(leakage) == [present |-> TRUE, leakage |-> leakage]

NoPowerInfo == [present |-> FALSE, leakage |-> 0]

\* Cell (the fields the engine reads)
Cell(name, alias, width, height) ==
    [name |-> name, alias |-> alias, width |-> width, height |-> height,
     power |-> NoPowerInfo]

\* a Cell whose document carries a power section
CellWithPower(name, alias, width, height, leakage) ==
    [Cell(name, alias, width, height) EXCEPT !.power = PowerInfo(leakage)]

\* the None that Technology.get_cell_by_alias returns
NoneCell == Cell("None", "None", 0, 0)

\* Units.distance, the dataclass default
DefaultDistance == 1000

\* Technology
Technology(cells) ==
    [site |-> [width |-> SiteW, height |-> SiteH], cells |-> cells,
     units |-> [distance |-> DefaultDistance]]

\* CellSpec
CellSpec(type, count) == [type |-> type, count |-> count]

\* TileRow
TileRow(row_id, cells) == [row_id |-> row_id, cells |-> cells]

\* Tile
Tile(name, height, width, rows) ==
    [name |-> name, height |-> height, width |-> width, rows |-> rows]

\* the None that TileDefinitions.get_tile_by_name returns
NoneTile == Tile("None", 0, 0, <<>>)

\* Region, with its area dictionary
Region(name, tile_type, row_start, col_start, width, height) ==
    [name |-> name, tile_type |-> tile_type,
     area |-> [row_start |-> row_start, col_start |-> col_start,
               width |-> width, height |-> height]]

\* EdgeCellConfig; present = FALSE is a side that is None
EdgeCellConfig(enable, cell) == [present |-> TRUE, enable |-> enable, cell |-> cell]

NoEdgeCellConfig == [present |-> FALSE, enable |-> FALSE, cell |-> "None"]

\* EdgeCells; present = FALSE is fabric_config.edge_cells = None
EdgeCells(left, right, top, bottom) ==
    [present |-> TRUE, left |-> left, right |-> right, top |-> top, bottom |-> bottom]

NoEdgeCells ==
    [present |-> FALSE, left |-> NoEdgeCellConfig, right |-> NoEdgeCellConfig,
     top |-> NoEdgeCellConfig, bottom |-> NoEdgeCellConfig]

\* Margins; present = FALSE is fabric_config.margins = None
Margins(horizontal, vertical) ==
    [present |-> TRUE, horizontal |-> horizontal, vertical |-> vertical]

NoMargins == [present |-> FALSE, horizontal |-> 0, vertical |-> 0]

\* IOPin; has_position = FALSE is position = None
IOPin(name, type, direction, position) ==
    [name |-> name, type |-> type, direction |-> direction,
     has_position |-> TRUE, position |-> position]

IOPinNoPosition(name, type, direction) ==
    [name |-> name, type |-> type, direction |-> direction,
     has_position |-> FALSE, position |-> 0]

\* IOEdge, with the key it has in IORing.edges
IOEdge(edge_name, spacing, pins) ==
    [edge_name |-> edge_name, spacing |-> spacing, pins |-> pins]

\* PinSize
PinSize(width, height) == [width |-> width, height |-> height]

\* IORing; edges is the dictionary in insertion order, a list of IOEdge with
\* distinct keys. present = FALSE is fabric_config.io_ring = None
IORing(pin_size, edges) == [present |-> TRUE, pin_size |-> pin_size, edges |-> edges]

NoIORing == [present |-> FALSE, pin_size |-> PinSize(1, 1), edges |-> <<>>]

\* FabricConfiguration (ArrayDimensions and TileConfiguration flattened); io_ring
\* has its dataclass default, None
FabricConfiguration(rows, cols, default_tile, regions, edge_cells, margins) ==
    [array_dimensions |-> [rows |-> rows, cols |-> cols],
     tile_configuration |-> [default_tile |-> default_tile, regions |-> regions],
     edge_cells |-> edge_cells, margins |-> margins, io_ring |-> NoIORing]

\* a FabricConfiguration whose document has an io_ring section
WithIORing(cfg, io_ring) == [cfg EXCEPT !.io_ring = io_ring]

\* FabricDimensions, before _calculate_dimensions has run
NoDimensions ==
    [tile_array_rows |-> 0, tile_array_cols |-> 0, fabric_rows |-> 0,
     fabric_sites |-> 0, core_width |-> 0, core_height |-> 0, die_width |-> 0,
     die_height |-> 0, margin_horizontal |-> 0, margin_vertical |-> 0]

\* PlacedPin
PlacedPin(name, direction, pin_type, edge, x, y, width, height) ==
    [name |-> name, direction |-> direction, pin_type |-> pin_type, edge |-> edge,
     x |-> x, y |-> y, width |-> width, height |-> height]

---------------------------------------------------------------------------
(* Quotients. The float values the engine computes with / are fractions n/d *)
(* of the model, d > 0, in lowest terms, so that one value has one record.  *)

RECURSIVE GCD(_, _)
GCD(a, b) == IF b = 0 THEN a ELSE GCD(b, a % b)

Abs(i) == IF i < 0 THEN -i ELSE i

\* the fraction n/d, d # 0, in lowest terms with a positive denominator
Frac(n, d) ==
    LET g == GCD(Abs(n), Abs(d))
        sign == IF d < 0 THEN -1 ELSE 1
    IN [n |-> sign * (n \div g), d |-> sign * (d \div g)]

\* an int used where the engine computes with floats
Num(i) == [n |-> i, d |-> 1]

\* the sums and products are formed over the least common denominator and after
\* cancelling, which keeps the numbers small and changes no value
Plus(a, b) ==
    IF a.d = 1 /\ b.d = 1 THEN Num(a.n + b.n)
    ELSE LET g == GCD(a.d, b.d)
         IN Frac(a.n * (b.d \div g) + b.n * (a.d \div g), (a.d \div g) * b.d)

Minus(a, b) == Plus(a, [n |-> -b.n, d |-> b.d])

Times(a, b) ==
    IF a.d = 1 /\ b.d = 1 THEN Num(a.n * b.n)
    ELSE LET g1 == GCD(Abs(a.n), b.d)
             g2 == GCD(Abs(b.n), a.d)
         IN Frac((a.n \div g1) * (b.n \div g2), (a.d \div g2) * (b.d \div g1))

\* a / b, b # 0
Over(a, b) == Times(a, Frac(b.d, b.n))

Less(a, b) ==
    LET g == GCD(a.d, b.d)
    IN a.n * (b.d \div g) < b.n * (a.d \div g)

---------------------------------------------------------------------------
(* Lookups *)

RECURSIVE FirstCellFrom(_, _, _)
FirstCellFrom(cells, alias, i) ==
    IF i > Len(cells) THEN NoneCell
    ELSE IF cells[i].alias = alias THEN cells[i]
    ELSE FirstCellFrom(cells, alias, i + 1)

\* Technology.get_cell_by_alias: the first cell of the list with the alias
get_cell_by_alias(tech, alias) == FirstCellFrom(tech.cells, alias, 1)

\* `if not cell_def`
IsNoneCell(cell) == cell.name = "None"

RECURSIVE FirstTileFrom(_, _, _)
FirstTileFrom(tiles, name, i) ==
    IF i > Len(tiles) THEN NoneTile
    ELSE IF tiles[i].name = name THEN tiles[i]
    ELSE FirstTileFrom(tiles, name, i + 1)

\* TileDefinitions.get_tile_by_name: the first tile of the list with the name
get_tile_by_name(tiles, name) == FirstTileFrom(tiles, name, 1)

IsNoneTile(tile) == tile.name = "None"

\* mutant of SideEnabled: a side that is present counts, whatever its enable flag
SideEnabled_IfPresent(cfg, side) ==
    cfg.edge_cells.present /\ cfg.edge_cells[side].present

\* `config and config.enable` for one side of fabric_config.edge_cells
SideEnabled(cfg, side) ==
    cfg.edge_cells.present /\ cfg.edge_cells[side].present /\ cfg.edge_cells[side].enable

---------------------------------------------------------------------------
(* load_inputs: the three parsers build the objects, and the __post_init__  *)
(* of each dataclass is where a document is rejected.                       *)

\* Tile.__post_init__
TilePostInit(tile) ==
    IF tile.rows = <<>> THEN "ok"
    ELSE IF Len(tile.rows) # tile.height THEN "tile_rows"
    ELSE "ok"

\* parse_tile_definitions: the tiles are built in document order
RECURSIVE ParseTilesFrom(_, _)
ParseTilesFrom(tiles, i) ==
    IF i > Len(tiles) THEN "ok"
    ELSE IF TilePostInit(tiles[i]) # "ok" THEN TilePostInit(tiles[i])
    ELSE ParseTilesFrom(tiles, i + 1)

\* ArrayDimensions.__post_init__
ArrayDimensionsPostInit(dims) ==
    IF dims.rows <= 0 \/ dims.cols <= 0 THEN "array_dimensions" ELSE "ok"

\* IOPin.__post_init__
IOPinPostInit(pin) ==
    IF pin.direction \notin {"input", "output", "inout"} THEN "pin_direction" ELSE "ok"

\* IOEdge.__post_init__
IOEdgePostInit(edge) ==
    IF edge.spacing \notin {"auto", "manual"} THEN "spacing"
    ELSE IF edge.spacing = "manual" /\ \E k \in 1..Len(edge.pins) : ~edge.pins[k].has_position
         THEN "pin_position"
    ELSE "ok"

\* the loop over io_data['edges'] of parse_fabric_configuration: the pins of an
\* edge are built first, then the edge
RECURSIVE ParseEdgesFrom(_, _)
ParseEdgesFrom(edges, i) ==
    IF i > Len(edges) THEN "ok"
    ELSE IF \E k \in 1..Len(edges[i].pins) : IOPinPostInit(edges[i].pins[k]) # "ok"
         THEN "pin_direction"
    ELSE IF IOEdgePostInit(edges[i]) # "ok" THEN IOEdgePostInit(edges[i])
    ELSE ParseEdgesFrom(edges, i + 1)

\* Margins.__post_init__
MarginsPostInit(margins) ==
    IF margins.horizontal <= 0 \/ margins.vertical <= 0 THEN "margins_positive" ELSE "ok"

\* FabricConfiguration.__post_init__: a ring with a non-empty edges dictionary
\* needs margins
FabricConfigurationPostInit(cfg) ==
    IF cfg.io_ring.present /\ cfg.io_ring.edges # <<>> /\ ~cfg.margins.present
    THEN "margins_required" ELSE "ok"

\* parse_fabric_configuration: array dimensions, io ring, margins, then the
\* configuration itself
parse_fabric_configuration(cfg) ==
    IF ArrayDimensionsPostInit(cfg.array_dimensions) # "ok" THEN "array_dimensions"
    ELSE IF cfg.io_ring.present /\ ParseEdgesFrom(cfg.io_ring.edges, 1) # "ok"
         THEN ParseEdgesFrom(cfg.io_ring.edges, 1)
    ELSE IF cfg.margins.present /\ MarginsPostInit(cfg.margins) # "ok"
         THEN "margins_positive"
    ELSE FabricConfigurationPostInit(cfg)

\* load_inputs: "ok", or the first exception of the three parsers
load_inputs(tech, tiles, cfg) ==
    IF ParseTilesFrom(tiles, 1) # "ok" THEN ParseTilesFrom(tiles, 1)
    ELSE parse_fabric_configuration(cfg)

\* update_pin_size: a pin size given on the command line replaces the document's,
\* in a new IORing() without edges when the document has no ring
update_pin_size(cfg, a) ==
    IF ~a.pin_size.present THEN cfg
    ELSE [cfg EXCEPT !.io_ring =
             IF cfg.io_ring.present
             THEN [cfg.io_ring EXCEPT !.pin_size = PinSize(a.pin_size.width, a.pin_size.height)]
             ELSE IORing(PinSize(a.pin_size.width, a.pin_size.height), <<>>)]

---------------------------------------------------------------------------
(* Tile.validate_row_widths *)

\* the loop `for cell_spec in row.cells: ... row_width += count * width`;
\* the result is -1 when the loop raises "Cell type not found"
RECURSIVE RowWidthFrom(_, _, _, _)
RowWidthFrom(tech, cells, i, acc) ==
    IF i > Len(cells) THEN acc
    ELSE LET cell_def == get_cell_by_alias(tech, cells[i].type) IN
         IF IsNoneCell(cell_def) THEN -1
         ELSE RowWidthFrom(tech, cells, i + 1, acc + cells[i].count * cell_def.width)

RowWidth(tech, cells) == RowWidthFrom(tech, cells, 1, 0)

\* the loop over self.rows[1:]
RECURSIVE OtherRowsFrom(_, _, _, _)
OtherRowsFrom(tile, tech, first_width, i) ==
    IF i > Len(tile.rows) THEN "ok"
    ELSE LET row_width == RowWidth(tech, tile.rows[i].cells) IN
         IF row_width = -1 THEN "cell_not_found"
         ELSE IF row_width # first_width THEN "row_width"
         ELSE OtherRowsFrom(tile, tech, first_width, i + 1)

\* mutant of validate_row_widths: the rows after the first are not compared
validate_row_widths_FirstRowOnly(tile, tech) ==
    IF tile.rows = <<>> THEN "ok"
    ELSE LET first_width == RowWidth(tech, tile.rows[1].cells) IN
         IF first_width = -1 THEN "cell_not_found"
         ELSE IF first_width # tile.width THEN "declared_width"
         ELSE "ok"

\* Tile.validate_row_widths: "ok", or the ValueError it raises
validate_row_widths(tile, tech) ==
    IF tile.rows = <<>> THEN "ok"
    ELSE LET first_width == RowWidth(tech, tile.rows[1].cells) IN
         IF first_width = -1 THEN "cell_not_found"
         ELSE IF first_width # tile.width THEN "declared_width"
         ELSE OtherRowsFrom(tile, tech, first_width, 2)

\* the loop `for tile in self.tile_definitions.tiles` of validate_inputs
RECURSIVE ValidateTilesFrom(_, _, _)
ValidateTilesFrom(tiles, tech, i) ==
    IF i > Len(tiles) THEN "ok"
    ELSE LET r == validate_row_widths(tiles[i], tech) IN
         IF r # "ok" THEN r ELSE ValidateTilesFrom(tiles, tech, i + 1)

---------------------------------------------------------------------------
(* FabricGenerator._validate_regions *)

\* FabricGenerator._regions_overlap
_regions_overlap(area1, area2) ==
    LET r1_left == area1.col_start
        r1_right == area1.col_start + area1.width
        r1_top == area1.row_start
        r1_bottom == area1.row_start + area1.height
        r2_left == area2.col_start
        r2_right == area2.col_start + area2.width
        r2_top == area2.row_start
        r2_bottom == area2.row_start + area2.height
    IN ~(r1_right <= r2_left \/ r2_right <= r1_left \/
         r1_bottom <= r2_top \/ r2_bottom <= r1_top)

\* the boundary test of _validate_regions
ExtendsBeyond(area, array_rows, array_cols) ==
    \/ area.row_start + area.height > array_rows
    \/ area.col_start + area.width > array_cols

RECURSIVE ValidateRegionsFrom(_, _, _, _)
ValidateRegionsFrom(regions, array_rows, array_cols, i) ==
    IF i > Len(regions) THEN "ok"
    ELSE IF ExtendsBeyond(regions[i].area, array_rows, array_cols)
         THEN "region_bounds"
    ELSE IF \E j \in (i + 1)..Len(regions) :
                _regions_overlap(regions[i].area, regions[j].area)
         THEN "region_overlap"
    ELSE ValidateRegionsFrom(regions, array_rows, array_cols, i + 1)

\* FabricGenerator._validate_regions: "ok", or the ValueError it raises
_validate_regions(cfg) ==
    ValidateRegionsFrom(cfg.tile_configuration.regions,
                        cfg.array_dimensions.rows, cfg.array_dimensions.cols, 1)

---------------------------------------------------------------------------
(* FabricGenerator.validate_inputs *)

Sides == <<"left", "right", "top", "bottom">>

\* validate_inputs: "ok", or the first ValueError in program order
validate_inputs(tech, tiles, cfg) ==
    LET widths == ValidateTilesFrom(tiles, tech, 1)
        regions == cfg.tile_configuration.regions
    IN IF widths # "ok" THEN widths
       ELSE IF IsNoneTile(get_tile_by_name(tiles, cfg.tile_configuration.default_tile))
            THEN "default_tile"
       ELSE IF \E i \in 1..Len(regions) :
                   IsNoneTile(get_tile_by_name(tiles, regions[i].tile_type))
            THEN "region_tile"
       ELSE IF \E s \in 1..Len(Sides) :
                   /\ SideEnabled(cfg, Sides[s])
                   /\ IsNoneCell(get_cell_by_alias(tech, cfg.edge_cells[Sides[s]].cell))
            THEN "edge_cell"
       ELSE _validate_regions(cfg)

---------------------------------------------------------------------------
(* FabricGenerator._initialize_tile_array / _apply_regional_overrides *)

\* _initialize_tile_array: rows lists of cols copies of the default tile name
_initialize_tile_array(cfg) ==
    [r \in 1..cfg.array_dimensions.rows |->
        [c \in 1..cfg.array_dimensions.cols |-> cfg.tile_configuration.default_tile]]

\* a Python list index i on a list of length n is legal for -n <= i < n
IndexOk(i, n) == -n <= i /\ i < n

\* the 1-based position a legal Python index denotes (negative ones count from the end)
PyIndex(i, n) == IF i >= 0 THEN i + 1 ELSE n + i + 1

\* the statements `self.tile_array[row][col] = region.tile_type` of one region, in
\* loop order, from the k-th (0-based, row-major) cell of its rectangle on; the loop
\* stops with ok = FALSE at the first IndexError, keeping what it has written
RECURSIVE StampFrom(_, _, _, _)
StampFrom(grid, area, tile_type, k) ==
    IF area.width <= 0 \/ area.height <= 0 \/ k >= area.width * area.height
    THEN [grid |-> grid, ok |-> TRUE]
    ELSE LET row == area.row_start + (k \div area.width)
             col == area.col_start + (k % area.width)
         IN IF ~IndexOk(row, Len(grid)) THEN [grid |-> grid, ok |-> FALSE]
            ELSE LET r == PyIndex(row, Len(grid)) IN
                 IF ~IndexOk(col, Len(grid[r])) THEN [grid |-> grid, ok |-> FALSE]
                 ELSE StampFrom(
                          [grid EXCEPT ![r][PyIndex(col, Len(grid[r]))] = tile_type],
                          area, tile_type, k + 1)

\* the loop `for region in ...regions` of _apply_regional_overrides
RECURSIVE OverridesFrom(_, _, _)
OverridesFrom(grid, regions, i) ==
    IF i > Len(regions) THEN [grid |-> grid, ok |-> TRUE]
    ELSE LET res == StampFrom(grid, regions[i].area, regions[i].tile_type, 0) IN
         IF ~res.ok THEN res ELSE OverridesFrom(res.grid, regions, i + 1)

\* mutant of _apply_regional_overrides: a call on a grid that is no longer the
\* default grid starts over from the default grid and leaves it
_apply_regional_overrides_StartsOver(grid, cfg) ==
    IF grid = _initialize_tile_array(cfg)
    THEN OverridesFrom(grid, cfg.tile_configuration.regions, 1)
    ELSE [grid |-> _initialize_tile_array(cfg), ok |-> TRUE]

\* _apply_regional_overrides on a grid: the grid it leaves, and whether it returned
_apply_regional_overrides(grid, cfg) ==
    OverridesFrom(grid, cfg.tile_configuration.regions, 1)

---------------------------------------------------------------------------
(* FabricGenerator._calculate_dimensions *)

\* mutant of EdgeHeight: a side that is present counts even with enable = false
EdgeHeight_IgnoresEnable(tech, cfg, side) ==
    IF cfg.edge_cells.present /\ cfg.edge_cells[side].present
    THEN get_cell_by_alias(tech, cfg.edge_cells[side].cell).height ELSE 0

\* the width (height) in sites an edge side contributes: 0 unless present and enabled
EdgeWidth(tech, cfg, side) ==
    IF SideEnabled(cfg, side)
    THEN get_cell_by_alias(tech, cfg.edge_cells[side].cell).width ELSE 0

EdgeHeight(tech, cfg, side) ==
    IF SideEnabled(cfg, side)
    THEN get_cell_by_alias(tech, cfg.edge_cells[side].cell).height ELSE 0

_calculate_dimensions(tech, tiles, cfg) ==
    LET array_rows == cfg.array_dimensions.rows
        array_cols == cfg.array_dimensions.cols
        default_tile == get_tile_by_name(tiles, cfg.tile_configuration.default_tile)
        fabric_rows == array_rows * default_tile.height
        fabric_sites == array_cols * default_tile.width
        edge_width_left == EdgeWidth(tech, cfg, "left")
        edge_width_right == EdgeWidth(tech, cfg, "right")
        edge_height_top == EdgeHeight(tech, cfg, "top")
        edge_height_bottom == EdgeHeight(tech, cfg, "bottom")
        core_width == (fabric_sites + edge_width_left + edge_width_right) * tech.site.width
        core_height == (fabric_rows + edge_height_top + edge_height_bottom) * tech.site.height
        margin_h == IF cfg.margins.present THEN cfg.margins.horizontal ELSE 0
        margin_v == IF cfg.margins.present THEN cfg.margins.vertical ELSE 0
    IN [tile_array_rows |-> array_rows, tile_array_cols |-> array_cols,
        fabric_rows |-> fabric_rows, fabric_sites |-> fabric_sites,
        core_width |-> core_width, core_height |-> core_height,
        die_width |-> core_width + 2 * margin_h,
        die_height |-> core_height + 2 * margin_v,
        margin_horizontal |-> margin_h, margin_vertical |-> margin_v]

---------------------------------------------------------------------------
(* FabricGenerator._generate_fabric_cells / _generate_tile_cells *)

\* CellInstance of the fabric. The name is the f-string
\* "{type}_T{tile_row}-{tile_col}_C{row_id}-{cell_position}", kept as its pieces:
\* the numbers are printed in decimal between fixed separators, so two names are
\* the same string exactly when their pieces agree.
FabricInstance(tech, cell_spec, cell_def, tile_row, tile_col, row_id, cell_position, x, y) ==
    [name |-> <<cell_spec.type, "_T", tile_row, "-", tile_col, "_C", row_id, "-", cell_position>>,
     cell_type |-> cell_def.name,
     x |-> x, y |-> y,
     width |-> cell_def.width * tech.site.width,
     height |-> cell_def.height * tech.site.height,
     tile_pos |-> <<tile_row, tile_col>>,
     cell_pos |-> <<row_id, cell_position>>,
     is_edge_cell |-> FALSE, edge_direction |-> "None"]

\* the loop `for i in range(cell_spec.count)`, from its i-th pass on; acc holds the
\* instances appended, cell_x and cell_position the loop's running variables
RECURSIVE CountLoop(_, _, _, _, _, _, _, _)
CountLoop(tech, cell_spec, cell_def, tile_row, tile_col, row_spec, row_y, st) ==
    IF st.i >= cell_spec.count THEN st
    ELSE CountLoop(tech, cell_spec, cell_def, tile_row, tile_col, row_spec, row_y,
             [st EXCEPT
                !.acc = Append(@, FabricInstance(tech, cell_spec, cell_def, tile_row,
                                   tile_col, row_spec.row_id, st.cell_position,
                                   st.cell_x, row_y)),
                !.cell_x = @ + cell_def.width * tech.site.width,
                !.cell_position = @ + 1,
                !.i = @ + 1])

\* the loop `for cell_spec in row_spec.cells`, from the k-th spec on
RECURSIVE SpecLoop(_, _, _, _, _, _, _)
SpecLoop(tech, tile_row, tile_col, row_spec, row_y, k, st) ==
    IF k > Len(row_spec.cells) \/ ~st.ok THEN st
    ELSE LET cell_spec == row_spec.cells[k]
             cell_def == get_cell_by_alias(tech, cell_spec.type)
         IN IF IsNoneCell(cell_def) THEN [st EXCEPT !.ok = FALSE]
            ELSE SpecLoop(tech, tile_row, tile_col, row_spec, row_y, k + 1,
                     CountLoop(tech, cell_spec, cell_def, tile_row, tile_col,
                               row_spec, row_y, [st EXCEPT !.i = 0]))

\* the loop `for row_spec in tile.rows`, from the j-th row on
RECURSIVE RowLoop(_, _, _, _, _, _, _, _)
RowLoop(tech, tile, tile_row, tile_col, tile_x, tile_y, j, st) ==
    IF j > Len(tile.rows) \/ ~st.ok THEN st
    ELSE LET row_spec == tile.rows[j]
             row_y == tile_y + row_spec.row_id * tech.site.height
         IN RowLoop(tech, tile, tile_row, tile_col, tile_x, tile_y, j + 1,
                SpecLoop(tech, tile_row, tile_col, row_spec, row_y, 1,
                         [st EXCEPT !.cell_x = tile_x, !.cell_position = 0]))

\* mutant of _generate_tile_cells: the tile origin is scaled by the tile's width on
\* the y axis
_generate_tile_cells_WidthForHeight(tech, tile, tile_row, tile_col, x_offset, y_offset, acc) ==
    LET tile_x == x_offset + tile_col * tile.width * tech.site.width
        tile_y == y_offset + tile_row * tile.width * tech.site.height
        res == RowLoop(tech, tile, tile_row, tile_col, tile_x, tile_y, 1,
                   [acc |-> acc, ok |-> TRUE, cell_x |-> tile_x, cell_position |-> 0,
                    i |-> 0])
    IN [acc |-> res.acc, ok |-> res.ok]

\* _generate_tile_cells: acc with the tile's instances appended; ok = FALSE when it
\* raised "Cell type not found"
_generate_tile_cells(tech, tile, tile_row, tile_col, x_offset, y_offset, acc) ==
    LET tile_x == x_offset + tile_col * tile.width * tech.site.width
        tile_y == y_offset + tile_row * tile.height * tech.site.height
        res == RowLoop(tech, tile, tile_row, tile_col, tile_x, tile_y, 1,
                   [acc |-> acc, ok |-> TRUE, cell_x |-> tile_x, cell_position |-> 0,
                    i |-> 0])
    IN [acc |-> res.acc, ok |-> res.ok]

\* the starting offsets of _generate_fabric_cells
XOffset(tech, cfg, dims) ==
    dims.margin_horizontal +
    (IF SideEnabled(cfg, "left")
     THEN get_cell_by_alias(tech, cfg.edge_cells.left.cell).width * tech.site.width
     ELSE 0)

YOffset(tech, cfg, dims) ==
    dims.margin_vertical +
    (IF SideEnabled(cfg, "bottom")
     THEN get_cell_by_alias(tech, cfg.edge_cells.bottom.cell).height * tech.site.height
     ELSE 0)

\* mutant of TileAt: every position is generated from the first tile of the library
TileAt_FirstTile(tiles, grid, tile_row, tile_col) == tiles[1]

\* the tile a grid position is generated from
TileAt(tiles, grid, tile_row, tile_col) ==
    get_tile_by_name(tiles, grid[tile_row + 1][tile_col + 1])

\* the two loops over the tile array, row-major, from the k-th (0-based) position on
RECURSIVE GridLoop(_, _, _, _, _, _, _)
GridLoop(tech, tiles, grid, x_offset, y_offset, k, st) ==
    LET ncols == Len(grid[1]) IN
    IF k >= Len(grid) * ncols \/ ~st.ok THEN st
    ELSE LET tile_row == k \div ncols
             tile_col == k % ncols
         IN GridLoop(tech, tiles, grid, x_offset, y_offset, k + 1,
                _generate_tile_cells(tech, TileAt(tiles, grid, tile_row, tile_col),
                                     tile_row, tile_col, x_offset, y_offset, st.acc))

\* _generate_fabric_cells: the instance list it leaves and whether it returned
_generate_fabric_cells(tech, tiles, cfg, dims, grid, instances) ==
    GridLoop(tech, tiles, grid, XOffset(tech, cfg, dims), YOffset(tech, cfg, dims), 0,
             [acc |-> instances, ok |-> TRUE])

---------------------------------------------------------------------------
(* FabricGenerator._generate_edge_cells and the four sides *)

\* CellInstance of an edge; the name is the f-string "{cell_alias}_EDGE_<SIDE>_{i}"
EdgeInstance(tech, cell_alias, cell_def, tag, side, i, x, y) ==
    [name |-> <<cell_alias, tag, i>>,
     cell_type |-> cell_def.name,
     x |-> x, y |-> y,
     width |-> cell_def.width * tech.site.width,
     height |-> cell_def.height * tech.site.height,
     tile_pos |-> <<>>, cell_pos |-> <<>>,
     is_edge_cell |-> TRUE, edge_direction |-> side]

\* `y_start`: the vertical margin plus the bottom edge cell height if enabled
EdgeYStart(tech, cfg, dims) ==
    dims.margin_vertical +
    (IF SideEnabled(cfg, "bottom")
     THEN get_cell_by_alias(tech, cfg.edge_cells.bottom.cell).height * tech.site.height
     ELSE 0)

\* `total_sites` of the top and bottom sides
TotalSites(tech, cfg, dims) ==
    dims.fabric_sites +
    (IF SideEnabled(cfg, "left")
     THEN get_cell_by_alias(tech, cfg.edge_cells.left.cell).width ELSE 0) +
    (IF SideEnabled(cfg, "right")
     THEN get_cell_by_alias(tech, cfg.edge_cells.right.cell).width ELSE 0)

\* mutant of CellsNeeded: floor division
CellsNeeded_Floor(total_sites, width) == total_sites \div width

\* `cells_needed = (total_sites + cell_def.width - 1) // cell_def.width`
CellsNeeded(total_sites, width) == (total_sites + width - 1) \div width

_generate_left_edge_cells(tech, cfg, dims) ==
    LET cell_alias == cfg.edge_cells.left.cell
        cell_def == get_cell_by_alias(tech, cell_alias)
        x == dims.margin_horizontal
        y_start == EdgeYStart(tech, cfg, dims)
    IN [k \in 1..dims.fabric_rows |->
           EdgeInstance(tech, cell_alias, cell_def, "_EDGE_LEFT_", "left", k - 1,
                        x, y_start + (k - 1) * tech.site.height)]

_generate_right_edge_cells(tech, cfg, dims) ==
    LET cell_alias == cfg.edge_cells.right.cell
        cell_def == get_cell_by_alias(tech, cell_alias)
        x == dims.margin_horizontal + dims.fabric_sites * tech.site.width +
             (IF SideEnabled(cfg, "left")
              THEN get_cell_by_alias(tech, cfg.edge_cells.left.cell).width * tech.site.width
              ELSE 0)
        y_start == EdgeYStart(tech, cfg, dims)
    IN [k \in 1..dims.fabric_rows |->
           EdgeInstance(tech, cell_alias, cell_def, "_EDGE_RIGHT_", "right", k - 1,
                        x, y_start + (k - 1) * tech.site.height)]

_generate_top_edge_cells(tech, cfg, dims) ==
    LET cell_alias == cfg.edge_cells.top.cell
        cell_def == get_cell_by_alias(tech, cell_alias)
        total_sites == TotalSites(tech, cfg, dims)
        y == dims.margin_vertical + dims.fabric_rows * tech.site.height +
             (IF SideEnabled(cfg, "bottom")
              THEN get_cell_by_alias(tech, cfg.edge_cells.bottom.cell).height * tech.site.height
              ELSE 0)
        x == dims.margin_horizontal
        cells_needed == CellsNeeded(total_sites, cell_def.width)
    IN [k \in 1..cells_needed |->
           EdgeInstance(tech, cell_alias, cell_def, "_EDGE_TOP_", "top", k - 1,
                        x + (k - 1) * cell_def.width * tech.site.width, y)]

_generate_bottom_edge_cells(tech, cfg, dims) ==
    LET cell_alias == cfg.edge_cells.bottom.cell
        cell_def == get_cell_by_alias(tech, cell_alias)
        total_sites == TotalSites(tech, cfg, dims)
        y == dims.margin_vertical
        x == dims.margin_horizontal
        cells_needed == CellsNeeded(total_sites, cell_def.width)
    IN [k \in 1..cells_needed |->
           EdgeInstance(tech, cell_alias, cell_def, "_EDGE_BOTTOM_", "bottom", k - 1,
                        x + (k - 1) * cell_def.width * tech.site.width, y)]

\* _generate_edge_cells: the instances appended, left, right, top, bottom in turn
_generate_edge_cells(tech, cfg, dims) ==
    IF ~cfg.edge_cells.present THEN <<>>
    ELSE (IF SideEnabled(cfg, "left")
          THEN _generate_left_edge_cells(tech, cfg, dims) ELSE <<>>) \o
         (IF SideEnabled(cfg, "right")
          THEN _generate_right_edge_cells(tech, cfg, dims) ELSE <<>>) \o
         (IF SideEnabled(cfg, "top")
          THEN _generate_top_edge_cells(tech, cfg, dims) ELSE <<>>) \o
         (IF SideEnabled(cfg, "bottom")
          THEN _generate_bottom_edge_cells(tech, cfg, dims) ELSE <<>>)

---------------------------------------------------------------------------
(* FabricGenerator._place_io_pins, _place_auto_pins, _place_manual_pins     *)

\* the coordinate a pin has across its edge: `0 if edge_name == "south" else
\* die_height - pin_size.height` for the edges along x, `0 if edge_name == "west"
\* else die_width - pin_size.width` for the others
AutoCornerY(dims, edge_name, pin_size) ==
    IF edge_name = "south" THEN Num(0) ELSE Num(dims.die_height - pin_size.height)

\* mutant of AutoCornerX: an east pin starts at the die boundary and extends outward
AutoCornerX_Outward(dims, edge_name, pin_size) ==
    IF edge_name = "west" THEN Num(0) ELSE Num(dims.die_width)

AutoCornerX(dims, edge_name, pin_size) ==
    IF edge_name = "west" THEN Num(0) ELSE Num(dims.die_width - pin_size.width)

\* mutant of AutoAxis: the first pin sits at the margin edge, not one spacing after it
AutoAxis_FromMargin(margin, available, n, i, size) ==
    LET spacing == Over(Num(available), Num(n + 1))
    IN Minus(Plus(Num(margin), Times(Num(i), spacing)), Over(Num(size), Num(2)))

\* `spacing = available / (len(pins) + 1)` and
\* `margin + (i + 1) * spacing - size / 2`, for the i-th (0-based) of n pins
AutoAxis(margin, available, n, i, size) ==
    LET spacing == Over(Num(available), Num(n + 1))
    IN Minus(Plus(Num(margin), Times(Num(i + 1), spacing)), Over(Num(size), Num(2)))

\* _place_auto_pins: the pins it appends
_place_auto_pins(dims, edge, pin_size) ==
    LET n == Len(edge.pins)
        margin_h == dims.margin_horizontal
        margin_v == dims.margin_vertical
    IN IF n = 0 THEN <<>>
       ELSE IF edge.edge_name \in {"north", "south"}
       THEN LET available_width == dims.die_width - 2 * margin_h IN
            [k \in 1..n |->
                PlacedPin(edge.pins[k].name, edge.pins[k].direction, edge.pins[k].type,
                          edge.edge_name,
                          AutoAxis(margin_h, available_width, n, k - 1, pin_size.width),
                          AutoCornerY(dims, edge.edge_name, pin_size),
                          pin_size.width, pin_size.height)]
       ELSE LET available_height == dims.die_height - 2 * margin_v IN
            [k \in 1..n |->
                PlacedPin(edge.pins[k].name, edge.pins[k].direction, edge.pins[k].type,
                          edge.edge_name,
                          AutoCornerX(dims, edge.edge_name, pin_size),
                          AutoAxis(margin_v, available_height, n, k - 1, pin_size.height),
                          pin_size.width, pin_size.height)]

\* mutant of _validate_pin_position: only the low margin is tested
_validate_pin_position_LowOnly(dims, edge, x, y, pin_size) ==
    IF edge \in {"north", "south"}
    THEN ~Less(x, Num(dims.margin_horizontal))
    ELSE ~Less(y, Num(dims.margin_vertical))

\* _validate_pin_position: TRUE when it returns, FALSE when it raises
_validate_pin_position(dims, edge, x, y, pin_size) ==
    LET margin_h == dims.margin_horizontal
        margin_v == dims.margin_vertical
    IN IF edge \in {"north", "south"}
       THEN ~(\/ Less(x, Num(margin_h))
              \/ Less(Num(dims.die_width - margin_h), Plus(x, Num(pin_size.width))))
       ELSE ~(\/ Less(y, Num(margin_v))
              \/ Less(Num(dims.die_height - margin_v), Plus(y, Num(pin_size.height))))

\* the coordinates _place_manual_pins computes for a pin
ManualX(dims, edge_name, pin, pin_size) ==
    IF edge_name = "north" THEN Minus(Num(pin.position), Over(Num(pin_size.width), Num(2)))
    ELSE IF edge_name = "south"
         THEN Minus(Num(pin.position), Over(Num(pin_size.width), Num(2)))
    ELSE IF edge_name = "east" THEN Num(dims.die_width - pin_size.width)
    ELSE Num(0)

ManualY(dims, edge_name, pin, pin_size) ==
    IF edge_name = "north" THEN Num(dims.die_height - pin_size.height)
    ELSE IF edge_name = "south" THEN Num(0)
    ELSE IF edge_name = "east"
         THEN Minus(Num(pin.position), Over(Num(pin_size.height), Num(2)))
    ELSE Minus(Num(pin.position), Over(Num(pin_size.height), Num(2)))

\* the loop `for pin in edge_config.pins` of _place_manual_pins, from the k-th pin
\* on: the pin list it leaves, and "ok" or the ValueError that stopped it
RECURSIVE ManualLoop(_, _, _, _, _)
ManualLoop(dims, edge, pin_size, k, pins) ==
    IF k > Len(edge.pins) THEN [pins |-> pins, result |-> "ok"]
    ELSE LET pin == edge.pins[k] IN
         IF ~pin.has_position THEN [pins |-> pins, result |-> "pin_position"]
         ELSE LET x == ManualX(dims, edge.edge_name, pin, pin_size)
                  y == ManualY(dims, edge.edge_name, pin, pin_size)
              IN IF ~_validate_pin_position(dims, edge.edge_name, x, y, pin_size)
                 THEN [pins |-> pins, result |-> "pin_outside_margins"]
                 ELSE ManualLoop(dims, edge, pin_size, k + 1,
                          Append(pins, PlacedPin(pin.name, pin.direction, pin.type,
                                                 edge.edge_name, x, y,
                                                 pin_size.width, pin_size.height)))

_place_manual_pins(dims, edge, pin_size, pins) == ManualLoop(dims, edge, pin_size, 1, pins)

\* the loop over io_ring.edges.items() of _place_io_pins, from the i-th edge on
RECURSIVE EdgesLoop(_, _, _, _)
EdgesLoop(cfg, dims, i, pins) ==
    IF i > Len(cfg.io_ring.edges) THEN [pins |-> pins, result |-> "ok"]
    ELSE LET edge_config == cfg.io_ring.edges[i] IN
         IF edge_config.spacing = "auto"
         THEN EdgesLoop(cfg, dims, i + 1,
                        pins \o _place_auto_pins(dims, edge_config, cfg.io_ring.pin_size))
         ELSE LET res == _place_manual_pins(dims, edge_config, cfg.io_ring.pin_size, pins)
              IN IF res.result # "ok" THEN res
                 ELSE EdgesLoop(cfg, dims, i + 1, res.pins)

\* _place_io_pins: the pin list it leaves, and "ok" or the ValueError it raised
_place_io_pins(cfg, dims, pins) ==
    IF ~cfg.io_ring.present \/ cfg.io_ring.edges = <<>>
    THEN [pins |-> pins, result |-> "ok"]
    ELSE EdgesLoop(cfg, dims, 1, pins)

---------------------------------------------------------------------------
(* FabricGenerator._calculate_statistics                                    *)

\* a dictionary without keys
EmptyDict == [k \in {} |-> 0]

\* `d.get(k, 0)`
Get(d, k) == IF k \in DOMAIN d THEN d[k] ELSE 0

\* FabricStats()
FabricStats ==
    [cell_counts |-> EmptyDict, edge_cell_counts |-> EmptyDict,
     combined_cell_counts |-> EmptyDict, total_cells |-> 0, total_edge_cells |-> 0,
     fabric_area_um2 |-> 0, die_area_um2 |-> 0, total_leakage_power |-> Num(0)]

RECURSIVE FirstCellNamedFrom(_, _, _)
FirstCellNamedFrom(cells, cell_name, i) ==
    IF i > Len(cells) THEN NoneCell
    ELSE IF cells[i].name = cell_name THEN cells[i]
    ELSE FirstCellNamedFrom(cells, cell_name, i + 1)

\* _get_cell_alias: the alias of the first cell of the list with the name; "None"
\* is the None it returns when there is none
_get_cell_alias(tech, cell_name) == FirstCellNamedFrom(tech.cells, cell_name, 1).alias

\* `if cell_alias`: None and the empty string are false
IsTruthy(cell_alias) == cell_alias # "None" /\ cell_alias # ""

\* str.upper on the aliases of the checked catalogues (the others are upper case)
Upper(cell_alias) ==
    IF cell_alias = "decap_8" THEN "DECAP_8" ELSE cell_alias

\* str.startswith('DECAP') on the upper-case forms of the checked catalogues
StartsWithDECAP(str) == str \in {"DECAP", "DECAP_4", "DECAP_8"}

\* _normalize_cell_type
_normalize_cell_type(cell_alias) ==
    IF StartsWithDECAP(Upper(cell_alias)) THEN "DECAP" ELSE cell_alias

\* the factor 1e-6 of `leakage * 1e-6`, as 1 / MicroUnits
MicroUnits == 1000000

\* `leakage_watts = cell_def.power.leakage * 1e-6`
LeakageWatts(leakage) == Times(Num(leakage), Frac(1, MicroUnits))

\* the reverse lookup every loop of _calculate_statistics begins with
AliasOf(tech, instance) == _get_cell_alias(tech, instance.cell_type)

\* the passes of a loop over the instances that get past `if cell_alias`
Counted(tech, instances) ==
    {k \in 1..Len(instances) : IsTruthy(AliasOf(tech, instances[k]))}

\* the loop `for cell in self.cell_instances`: every counted pass adds one to
\* cell_counts[cell_alias] and to total_cells, so the loop leaves each count raised
\* by the number of passes with that alias
FabricCountLoop(tech, instances, st) ==
    LET counted == Counted(tech, instances)
        keys == (DOMAIN st.cell_counts) \cup {AliasOf(tech, instances[k]) : k \in counted}
    IN [cell_counts |->
            [a \in keys |->
                Get(st.cell_counts, a)
                + Cardinality({k \in counted : AliasOf(tech, instances[k]) = a})],
        total_cells |-> st.total_cells + Cardinality(counted)]

\* the key of edge_cell_counts, the f-string "{cell_alias}_{edge_direction}", kept
\* as its pieces: a side has no underscore, so two keys are the same string exactly
\* when their pieces agree
EdgeKey(tech, edge_cell) == <<AliasOf(tech, edge_cell), "_", edge_cell.edge_direction>>

\* the loop `for edge_cell in self.edge_cell_instances`
EdgeCountLoop(tech, instances, st) ==
    LET counted == Counted(tech, instances)
        keys == (DOMAIN st.edge_cell_counts) \cup {EdgeKey(tech, instances[k]) : k \in counted}
    IN [edge_cell_counts |->
            [e \in keys |->
                Get(st.edge_cell_counts, e)
                + Cardinality({k \in counted : EdgeKey(tech, instances[k]) = e})],
        total_edge_cells |-> st.total_edge_cells + Cardinality(counted)]

\* `if cell_def: if cell_def.power and ...: leakage_watts = ...`: what one pass for
\* the alias adds to total_leakage_power
LeakageOf(tech, cell_alias) ==
    LET cell_def == get_cell_by_alias(tech, cell_alias) IN
    IF ~IsNoneCell(cell_def) /\ cell_def.power.present
    THEN LeakageWatts(cell_def.power.leakage) ELSE Num(0)

\* `self.stats.total_leakage_power += leakage_watts` over the counted passes, taken
\* alias by alias: as many times LeakageOf as there are passes with the alias
RECURSIVE AddLeakage(_, _, _, _, _)
AddLeakage(total, tech, instances, counted, aliases) ==
    IF aliases = {} THEN total
    ELSE LET a == CHOOSE x \in aliases : TRUE
             passes == Cardinality({k \in counted : AliasOf(tech, instances[k]) = a})
         IN AddLeakage(Plus(total, Times(Num(passes), LeakageOf(tech, a))),
                       tech, instances, counted, aliases \ {a})

\* the loop `for cell_instance in all_cell_instances`
CombinedLoop(tech, instances, st) ==
    LET counted == Counted(tech, instances)
        display_type(k) == _normalize_cell_type(AliasOf(tech, instances[k]))
        keys == (DOMAIN st.combined_cell_counts) \cup {display_type(k) : k \in counted}
    IN [combined_cell_counts |->
            [t \in keys |->
                Get(st.combined_cell_counts, t)
                + Cardinality({k \in counted : display_type(k) = t})],
        total_leakage_power |->
            AddLeakage(st.total_leakage_power, tech, instances, counted,
                       {AliasOf(tech, instances[k]) : k \in counted})]

\* _calculate_statistics: the FabricStats it leaves. Each of the three loops reads
\* and writes its own fields of self.stats only.
_calculate_statistics(tech, dims, fabric, edge, st) ==
    LET fabric_counts == FabricCountLoop(tech, fabric, st)
        edge_counts == EdgeCountLoop(tech, edge, st)
        combined == CombinedLoop(tech, fabric \o edge, st)
    IN [cell_counts |-> fabric_counts.cell_counts,
        total_cells |-> fabric_counts.total_cells,
        edge_cell_counts |-> edge_counts.edge_cell_counts,
        total_edge_cells |-> edge_counts.total_edge_cells,
        combined_cell_counts |-> combined.combined_cell_counts,
        total_leakage_power |-> combined.total_leakage_power,
        fabric_area_um2 |-> dims.core_width * dims.core_height,
        die_area_um2 |-> dims.die_width * dims.die_height]

---------------------------------------------------------------------------
(* generate_def_file: the numbers written into the DEF file                 *)

\* mutant of PyInt: the floor
PyInt_Floor(v) == v.n \div v.d

\* int() of a float: truncation toward zero
PyInt(v) == IF v.n >= 0 THEN v.n \div v.d ELSE -((-v.n) \div v.d)

\* `int(value * units)`
DefUnits(value, units) == PyInt(Times(value, Num(units)))

\* _write_def_header: the DIEAREA corner
_write_def_header(tech, dims) ==
    <<DefUnits(Num(dims.die_width), tech.units.distance),
      DefUnits(Num(dims.die_height), tech.units.distance)>>

\* _write_def_components: ( x y ) of every component, fabric then edge
_write_def_components(tech, fabric, edge) ==
    LET all_components == fabric \o edge IN
    [k \in 1..Len(all_components) |->
        <<DefUnits(Num(all_components[k].x), tech.units.distance),
          DefUnits(Num(all_components[k].y), tech.units.distance)>>]

\* _write_def_pins: ( x1 y1 ) ( x2 y2 ) of every pin
_write_def_pins(tech, pins) ==
    [k \in 1..Len(pins) |->
        <<DefUnits(pins[k].x, tech.units.distance),
          DefUnits(pins[k].y, tech.units.distance),
          DefUnits(Plus(pins[k].x, Num(pins[k].width)), tech.units.distance),
          DefUnits(Plus(pins[k].y, Num(pins[k].height)), tech.units.distance)>>]

\* generate_def_file: what the file holds
generate_def_file(tech, dims, fabric, edge, pins) ==
    [diearea |-> _write_def_header(tech, dims),
     components |-> _write_def_components(tech, fabric, edge),
     pins |-> _write_def_pins(tech, pins)]

\* no DEF file
NoDefFile == [diearea |-> <<0, 0>>, components |-> <<>>, pins |-> <<>>]

---------------------------------------------------------------------------
(* The run: main calls load_inputs, validate_inputs, generate_fabric (whose *)
(* stages run in program order) and then writes the output files. An        *)
(* exception ends the run: err names it, pc stays at the step that raised   *)
(* it, and main returns 1.                                                  *)

Stages == <<"load_inputs", "validate_inputs", "_initialize_tile_array",
            "_apply_regional_overrides", "_calculate_dimensions",
            "_generate_fabric_cells", "_generate_edge_cells", "_place_io_pins",
            "_calculate_statistics", "output_dir.mkdir", "generate_def_file",
            "generate_lef_file", "summary", "returned">>

\* the position of a step in the run
StageNo(p) == CHOOSE k \in 1..Len(Stages) : Stages[k] = p

\* the step named p has returned
Returned(p) == StageNo(pc) > StageNo(p)

Running(p) == pc = p /\ err = "none"

inputs == <<technology, tile_definitions, fabric_config, args>>

\* the fields main and the writers fill after the cells are placed
results == <<stats, output, exit_code>>

\* exit_code while main has not returned
NotReturned == -1

\* no --pin-size on the command line
NoPinSizeFlag == [present |-> FALSE, width |-> 0, height |-> 0]

\* a command line without --def-only and --pin-size
NoFlags == [def_only |-> FALSE, pin_size |-> NoPinSizeFlag]

\* nothing written: no output directory, no file
NoOutput == [dir |-> FALSE, files |-> {}, def |-> NoDefFile]

\* generator.load_inputs(...) followed, when it returned, by update_pin_size(...);
\* before it the three variables hold what the documents say
LoadInputs ==
    /\ Running("load_inputs")
    /\ LET r == load_inputs(technology, tile_definitions, fabric_config) IN
       IF r = "ok"
       THEN /\ fabric_config' = update_pin_size(fabric_config, args)
            /\ pc' = "validate_inputs" /\ err' = err
       ELSE /\ fabric_config' = fabric_config
            /\ pc' = pc /\ err' = r
    /\ UNCHANGED <<technology, tile_definitions, args, tile_array, dimensions,
                   cell_instances, edge_cell_instances, placed_pins, results>>

ValidateInputs ==
    /\ Running("validate_inputs")
    /\ LET r == validate_inputs(technology, tile_definitions, fabric_config) IN
       IF r = "ok"
       THEN pc' = "_initialize_tile_array" /\ err' = err
       ELSE pc' = pc /\ err' = r
    /\ UNCHANGED <<inputs, tile_array, dimensions, cell_instances, edge_cell_instances,
                   placed_pins, results>>

InitializeTileArray ==
    /\ Running("_initialize_tile_array")
    /\ tile_array' = _initialize_tile_array(fabric_config)
    /\ pc' = "_apply_regional_overrides"
    /\ UNCHANGED <<inputs, dimensions, cell_instances, edge_cell_instances,
                   placed_pins, results, err>>

ApplyRegionalOverrides ==
    /\ Running("_apply_regional_overrides")
    /\ LET res == _apply_regional_overrides(tile_array, fabric_config) IN
       /\ tile_array' = res.grid
       /\ IF res.ok
          THEN pc' = "_calculate_dimensions" /\ err' = err
          ELSE pc' = pc /\ err' = "IndexError"
    /\ UNCHANGED <<inputs, dimensions, cell_instances, edge_cell_instances,
                   placed_pins, results>>

CalculateDimensions ==
    /\ Running("_calculate_dimensions")
    /\ dimensions' = _calculate_dimensions(technology, tile_definitions, fabric_config)
    /\ pc' = "_generate_fabric_cells"
    /\ UNCHANGED <<inputs, tile_array, cell_instances, edge_cell_instances,
                   placed_pins, results, err>>

GenerateFabricCells ==
    /\ Running("_generate_fabric_cells")
    /\ LET res == _generate_fabric_cells(technology, tile_definitions, fabric_config,
                                         dimensions, tile_array, cell_instances) IN
       /\ cell_instances' = res.acc
       /\ IF res.ok
          THEN pc' = "_generate_edge_cells" /\ err' = err
          ELSE pc' = pc /\ err' = "cell_not_found"
    /\ UNCHANGED <<inputs, tile_array, dimensions, edge_cell_instances,
                   placed_pins, results>>

GenerateEdgeCells ==
    /\ Running("_generate_edge_cells")
    /\ edge_cell_instances' =
           edge_cell_instances \o _generate_edge_cells(technology, fabric_config, dimensions)
    /\ pc' = "_place_io_pins"
    /\ UNCHANGED <<inputs, tile_array, dimensions, cell_instances,
                   placed_pins, results, err>>

PlaceIoPins ==
    /\ Running("_place_io_pins")
    /\ LET res == _place_io_pins(fabric_config, dimensions, placed_pins) IN
       /\ placed_pins' = res.pins
       /\ IF res.result = "ok"
          THEN pc' = "_calculate_statistics" /\ err' = err
          ELSE pc' = pc /\ err' = res.result
    /\ UNCHANGED <<inputs, tile_array, dimensions, cell_instances, edge_cell_instances,
                   results>>

CalculateStatistics ==
    /\ Running("_calculate_statistics")
    /\ stats' = _calculate_statistics(technology, dimensions, cell_instances,
                                      edge_cell_instances, stats)
    /\ pc' = "output_dir.mkdir"
    /\ UNCHANGED <<inputs, tile_array, dimensions, cell_instances, edge_cell_instances,
                   placed_pins, output, exit_code, err>>

\* determine_output_paths and output_dir.mkdir(parents=True, exist_ok=True)
MakeOutputDir ==
    /\ Running("output_dir.mkdir")
    /\ output' = [output EXCEPT !.dir = TRUE]
    /\ pc' = "generate_def_file"
    /\ UNCHANGED <<inputs, tile_array, dimensions, cell_instances, edge_cell_instances,
                   placed_pins, stats, exit_code, err>>

\* generator.generate_def_file(...), and `if not args.def_only`
GenerateDefFile ==
    /\ Running("generate_def_file")
    /\ output' = [output EXCEPT
                     !.files = @ \cup {"def"},
                     !.def = generate_def_file(technology, dimensions, cell_instances,
                                               edge_cell_instances, placed_pins)]
    /\ pc' = IF args.def_only THEN "summary" ELSE "generate_lef_file"
    /\ UNCHANGED <<inputs, tile_array, dimensions, cell_instances, edge_cell_instances,
                   placed_pins, stats, exit_code, err>>

\* generate_lef_file, generate_json_file and generate_svg_files
GenerateOtherFiles ==
    /\ Running("generate_lef_file")
    /\ output' = [output EXCEPT !.files = @ \cup {"lef", "json", "svg"}]
    /\ pc' = "summary"
    /\ UNCHANGED <<inputs, tile_array, dimensions, cell_instances, edge_cell_instances,
                   placed_pins, stats, exit_code, err>>

\* mutant of ExitCode: main returns 0 also from the except clause
ExitCode_AlwaysZero(e) == 0

\* what main returns: 0 at the end of the try block, 1 from the except clause
ExitCode(e) == IF e = "none" THEN 0 ELSE 1

\* `return 0` after the summary, or `return 1` of the except clause
Return ==
    /\ exit_code = NotReturned
    /\ err # "none" \/ pc = "summary"
    /\ exit_code' = ExitCode(err)
    /\ pc' = IF err = "none" THEN "returned" ELSE pc
    /\ UNCHANGED <<inputs, tile_array, dimensions, cell_instances, edge_cell_instances,
                   placed_pins, stats, output, err>>

Next ==
    \/ LoadInputs
    \/ ValidateInputs
    \/ InitializeTileArray
    \/ ApplyRegionalOverrides
    \/ CalculateDimensions
    \/ GenerateFabricCells
    \/ GenerateEdgeCells
    \/ PlaceIoPins
    \/ CalculateStatistics
    \/ MakeOutputDir
    \/ GenerateDefFile
    \/ GenerateOtherFiles
    \/ Return

---------------------------------------------------------------------------
(* A client of the class other than main: it may call generate_fabric        *)
(* without validate_inputs, and call a method a second time.                 *)

\* generator.generate_fabric() called on loaded inputs without validate_inputs()
SkipValidation ==
    /\ Running("validate_inputs")
    /\ pc' = "_initialize_tile_array"
    /\ UNCHANGED <<inputs, tile_array, dimensions, cell_instances, edge_cell_instances,
                   placed_pins, results, err>>

\* the position of a client that has called _apply_regional_overrides twice
OverlaidTwice == "_apply_regional_overrides (second call)"

\* self._apply_regional_overrides() called once more, on the grid the first call left
ApplyRegionalOverridesAgain ==
    /\ Running("_calculate_dimensions")
    /\ LET res == _apply_regional_overrides(tile_array, fabric_config) IN
       /\ tile_array' = res.grid
       /\ err' = IF res.ok THEN err ELSE "IndexError"
    /\ pc' = OverlaidTwice
    /\ UNCHANGED <<inputs, dimensions, cell_instances, edge_cell_instances,
                   placed_pins, results>>

NextOverlay ==
    \/ LoadInputs
    \/ ValidateInputs
    \/ SkipValidation
    \/ InitializeTileArray
    \/ ApplyRegionalOverrides
    \/ ApplyRegionalOverridesAgain

\* the position of a client whose second call of generate_fabric has returned
GeneratedTwice == "generate_fabric (second call)"

\* generator.generate_fabric() called a second time on the same generator, after the
\* first call returned: the seven steps in turn, each on the fields the first call
\* left (tile_array and dimensions are assigned anew, the three lists are appended to
\* and the statistics are added to)
GenerateFabricAgain ==
    /\ Running("output_dir.mkdir")
    /\ LET overlay == _apply_regional_overrides(_initialize_tile_array(fabric_config),
                                                fabric_config)
           dims == _calculate_dimensions(technology, tile_definitions, fabric_config)
           fabric == _generate_fabric_cells(technology, tile_definitions, fabric_config,
                                            dims, overlay.grid, cell_instances)
           edge == edge_cell_instances
                   \o _generate_edge_cells(technology, fabric_config, dims)
           pins == _place_io_pins(fabric_config, dims, placed_pins)
       IN /\ tile_array' = overlay.grid
          /\ IF ~overlay.ok
             THEN /\ err' = "IndexError"
                  /\ UNCHANGED <<dimensions, cell_instances, edge_cell_instances,
                                 placed_pins, stats>>
             ELSE /\ dimensions' = dims
                  /\ cell_instances' = fabric.acc
                  /\ IF ~fabric.ok
                     THEN /\ err' = "cell_not_found"
                          /\ UNCHANGED <<edge_cell_instances, placed_pins, stats>>
                     ELSE /\ edge_cell_instances' = edge
                          /\ placed_pins' = pins.pins
                          /\ IF pins.result # "ok"
                             THEN err' = pins.result /\ stats' = stats
                             ELSE /\ err' = err
                                  /\ stats' = _calculate_statistics(
                                                  technology, dims, fabric.acc, edge, stats)
    /\ pc' = GeneratedTwice
    /\ UNCHANGED <<inputs, output, exit_code>>

NextRegenerate ==
    \/ LoadInputs
    \/ ValidateInputs
    \/ InitializeTileArray
    \/ ApplyRegionalOverrides
    \/ CalculateDimensions
    \/ GenerateFabricCells
    \/ GenerateEdgeCells
    \/ PlaceIoPins
    \/ CalculateStatistics
    \/ GenerateFabricAgain

\* FabricGenerator.__init__ in a run of main with the command line a, the three
\* documents read
Started(tech, tiles, cfg, a) ==
    /\ technology = tech
    /\ tile_definitions = tiles
    /\ fabric_config = cfg
    /\ args = a
    /\ tile_array = <<>>
    /\ dimensions = NoDimensions
    /\ cell_instances = <<>>
    /\ edge_cell_instances = <<>>
    /\ placed_pins = <<>>
    /\ stats = FabricStats
    /\ output = NoOutput
    /\ exit_code = NotReturned
    /\ pc = "load_inputs"
    /\ err = "none"

\* the same without command line flags
Fresh(tech, tiles, cfg) == Started(tech, tiles, cfg, NoFlags)

---------------------------------------------------------------------------
(* The checked inputs: three families of loaded documents.                  *)

ArraySizes == (1..MaxArrayRows) \X (1..MaxArrayCols)

\* --- tiles: a varied default tile T0, beside a second tile T1 ---

TechTiles == Technology(<<Cell("cell_a", "A", 1, 1), Cell("cell_b", "B", 2, 1)>>)

VariedSpecs == {CellSpec(t, c) : t \in {"A", "B"}, c \in 1..MaxCount}

VariedRowCells == {<<s>> : s \in VariedSpecs} \cup {<<s, t>> : s \in VariedSpecs, t \in VariedSpecs}

\* one- and two-row tiles; row_id is whatever the document says, so it may differ
\* from the row's place in the list and may repeat
VariedTiles ==
    {Tile("T0", 1, w, <<TileRow(id, c)>>) :
        w \in 2..MaxTileWidth, id \in {0, 1}, c \in VariedRowCells}
    \cup
    {Tile("T0", 2, w, <<TileRow(ids[1], c1), TileRow(ids[2], c2)>>) :
        w \in 2..MaxTileWidth, ids \in {<<0, 1>>, <<1, 0>>, <<0, 0>>},
        c1 \in VariedRowCells, c2 \in VariedRowCells}

GoodT1 == Tile("T1", 1, 2, <<TileRow(0, <<CellSpec("B", 1)>>)>>)

\* rows of 3 and 2 sites under a declared width of 3
BadRowT1 == Tile("T1", 2, 3, <<TileRow(0, <<CellSpec("A", 1), CellSpec("B", 1)>>),
                              TileRow(1, <<CellSpec("B", 1)>>)>>)

\* an alias the technology does not have
UnknownCellT1 == Tile("T1", 1, 2, <<TileRow(0, <<CellSpec("A", 1), CellSpec("X", 1)>>)>>)

\* Tile.__post_init__ returns early on an empty row list
NoRowsT1 == Tile("T1", 1, 2, <<>>)

\* the second tile, and whether a region at the last column of row 0 uses it
SecondTileCases ==
    {<<GoodT1, FALSE>>, <<GoodT1, TRUE>>, <<BadRowT1, FALSE>>, <<UnknownCellT1, FALSE>>,
     <<NoRowsT1, TRUE>>}

\* array sizes of the tile family: more than one position
TileArraySizes == {<<1, 2>>, <<2, 1>>, <<2, 2>>}

InitTiles ==
    \E t0 \in VariedTiles, second \in SecondTileCases, size \in TileArraySizes :
        Fresh(TechTiles, <<t0, second[1]>>,
              FabricConfiguration(size[1], size[2], "T0",
                  IF second[2]
                  THEN <<Region("r1", "T1", 0, size[2] - 1, 1, 1)>> ELSE <<>>,
                  NoEdgeCells, NoMargins))

\* --- regions: fixed tiles, up to two regions of varied rectangles ---

TilesRegions ==
    <<Tile("T0", 1, 2, <<TileRow(0, <<CellSpec("A", 2)>>)>>),
      Tile("T1", 1, 2, <<TileRow(0, <<CellSpec("B", 1)>>)>>),
      Tile("T2", 1, 2, <<TileRow(0, <<CellSpec("A", 1), CellSpec("A", 1)>>)>>)>>

RegionSizes == 0..2

\* the first region: any start from below the array to its last row and column
FirstAreas ==
    {<<rs, cs, w, h>> : rs \in -(MaxArrayRows + 1)..(MaxArrayRows - 1),
                        cs \in -(MaxArrayCols + 1)..(MaxArrayCols - 1),
                        w \in RegionSizes, h \in RegionSizes}

\* the second region: starts inside the array
SecondAreas ==
    {<<rs, cs, w, h>> : rs \in 0..(MaxArrayRows - 1), cs \in 0..(MaxArrayCols - 1),
                        w \in RegionSizes, h \in RegionSizes}

RegionLists ==
    {<<>>}
    \cup {<<Region("r1", "T1", a[1], a[2], a[3], a[4])>> : a \in FirstAreas}
    \cup {<<Region("r1", "T1", a[1], a[2], a[3], a[4]),
            Region("r2", "T2", b[1], b[2], b[3], b[4])>> :
              a \in FirstAreas, b \in SecondAreas}

InitRegions ==
    \E regions \in RegionLists, size \in ArraySizes :
        Fresh(TechTiles, TilesRegions,
              FabricConfiguration(size[1], size[2], "T0", regions, NoEdgeCells, NoMargins))

\* --- edges: fixed tiles, every combination of sides, a varied edge cell E2 ---

EdgeSizes == 1..MaxEdgeSize

TechEdges(w, h) ==
    Technology(<<Cell("cell_a", "A", 1, 1), Cell("cell_b", "B", 2, 1),
                 Cell("cell_e1", "E1", 1, 1), Cell("cell_e2", "E2", w, h)>>)

TilesEdges ==
    <<Tile("T0", 1, 2, <<TileRow(0, <<CellSpec("A", 2)>>)>>),
      Tile("T1", 2, 3, <<TileRow(0, <<CellSpec("B", 1), CellSpec("A", 1)>>),
                         TileRow(1, <<CellSpec("A", 3)>>)>>)>>

SideCasesA ==
    {NoEdgeCellConfig, EdgeCellConfig(FALSE, "E2"), EdgeCellConfig(TRUE, "E1"),
     EdgeCellConfig(TRUE, "E2")}

SideCasesB ==
    {NoEdgeCellConfig, EdgeCellConfig(FALSE, "E1"), EdgeCellConfig(TRUE, "E2")}

EdgeCellsCases ==
    {NoEdgeCells} \cup
    {EdgeCells(l, r, t, b) :
        l \in SideCasesA, r \in SideCasesB, t \in SideCasesA, b \in SideCasesB}

InitEdges ==
    \E w \in EdgeSizes, h \in EdgeSizes, edge_cells \in EdgeCellsCases,
       margins \in {NoMargins, Margins(MarginH, MarginV)},
       default_tile \in {"T0", "T1"}, size \in ArraySizes :
        Fresh(TechEdges(w, h), TilesEdges,
              FabricConfiguration(size[1], size[2], default_tile, <<>>, edge_cells, margins))

\* --- pins: a fixed tile, no edge cells, a varied I/O ring and command line ---

PinNames == <<"p1", "p2", "p3", "p4", "p5">>

EdgeNames == {"north", "south", "east", "west"}

\* the declared positions of manual pins: on both sides of either margin band
Positions == {1, 2, 4, 5}

\* the pin lists of a manual edge: up to two pins with a position, or one without
ManualPinLists ==
    {<<>>}
    \cup {<<IOPin("p1", "signal", "input", p)>> : p \in Positions}
    \cup {<<IOPin("p1", "signal", "input", p), IOPin("p2", "signal", "output", q)>> :
             p \in Positions, q \in Positions}
    \cup {<<IOPinNoPosition("p1", "signal", "input")>>}

\* the pin lists of an auto edge: 0..MaxPins pins
AutoPinLists ==
    {[k \in 1..n |-> IOPinNoPosition(PinNames[k], "signal", "inout")] : n \in 0..MaxPins}

FirstEdges ==
    {IOEdge(e, "manual", pins) : e \in EdgeNames, pins \in ManualPinLists}
    \cup {IOEdge(e, "auto", pins) : e \in EdgeNames, pins \in AutoPinLists}

\* a second edge of the ring: a manual pin that fits on no edge or on every edge,
\* or two auto pins
SecondEdges ==
    {IOEdge(e, "manual", <<IOPin("q1", "signal", "input", p)>>) :
        e \in {"south", "west"}, p \in {1, 4}}
    \cup {IOEdge("east", "auto", <<IOPinNoPosition("q1", "signal", "output"),
                                    IOPinNoPosition("q2", "signal", "output")>>)}

\* the edges dictionary: no edge, one edge, or a first edge of at most one pin
\* followed by a second edge of another name
EdgeLists ==
    {<<>>}
    \cup {<<e>> : e \in FirstEdges}
    \cup {ef \in {g \in FirstEdges : Len(g.pins) <= 1} \X SecondEdges :
             ef[1].edge_name # ef[2].edge_name}

IORings ==
    {NoIORing} \cup
    {IORing(size, edges) : size \in {PinSize(1, 1), PinSize(2, 1)}, edges \in EdgeLists}

\* the command lines: none of the flags, --def-only, or --pin-size 5 2
CommandLines ==
    {NoFlags, [NoFlags EXCEPT !.def_only = TRUE],
     [NoFlags EXCEPT !.pin_size = [present |-> TRUE, width |-> 5, height |-> 2]]}

TilesPins == <<Tile("T0", 1, 2, <<TileRow(0, <<CellSpec("A", 2)>>)>>)>>

InitPins ==
    \E io_ring \in IORings, margins \in {NoMargins, Margins(MarginH, MarginV)},
       a \in CommandLines, cols \in {1, 2} :
        Started(TechTiles, TilesPins,
                WithIORing(FabricConfiguration(1, cols, "T0", <<>>, NoEdgeCells, margins),
                           io_ring),
                a)

\* --- references: names of tiles and aliases that may be missing ---

RefRegionLists ==
    {<<>>, <<Region("r1", "T1", 0, 0, 1, 1)>>, <<Region("r1", "TX", 0, 0, 1, 1)>>,
     <<Region("r1", "T1", 0, 0, 1, 1), Region("r2", "TX", 1, 1, 1, 1)>>}

\* a side: absent, disabled or enabled with a missing alias, enabled with a cell
RefSideCases ==
    {NoEdgeCellConfig, EdgeCellConfig(FALSE, "EX"), EdgeCellConfig(TRUE, "EX"),
     EdgeCellConfig(TRUE, "E1")}

RefEdgeCells ==
    {NoEdgeCells} \cup
    {EdgeCells(l, r, t, b) :
        l \in RefSideCases, r \in RefSideCases, t \in RefSideCases, b \in RefSideCases}

InitRefs ==
    \E default_tile \in {"T0", "TX"}, regions \in RefRegionLists,
       edge_cells \in RefEdgeCells :
        Fresh(TechEdges(1, 1), TilesRegions,
              FabricConfiguration(2, 2, default_tile, regions, edge_cells, NoMargins))

\* --- statistics: catalogues with power data and DECAP aliases ---

\* every cell has its own name
TechStats ==
    Technology(<<CellWithPower("cell_a", "A", 1, 1, 3), Cell("cell_b", "B", 2, 1),
                 CellWithPower("cell_a2", "A2", 1, 1, 4),
                 CellWithPower("decap_4_cell", "DECAP_4", 1, 1, 5),
                 Cell("decap_8_cell", "decap_8", 2, 1),
                 CellWithPower("cell_e1", "E1", 1, 1, 7)>>)

\* the alias A2 is a second entry for the library cell cell_a, without power data
TechStatsSharedName ==
    Technology(<<CellWithPower("cell_a", "A", 1, 1, 3), Cell("cell_b", "B", 2, 1),
                 Cell("cell_a", "A2", 1, 1),
                 CellWithPower("decap_4_cell", "DECAP_4", 1, 1, 5),
                 Cell("decap_8_cell", "decap_8", 2, 1),
                 CellWithPower("cell_e1", "E1", 1, 1, 7)>>)

StatsSpecs ==
    {CellSpec(t, c) : t \in {"A", "B", "A2", "DECAP_4", "decap_8"}, c \in 1..MaxCount}

\* one-row tiles of two CellSpecs, declared with the width the row has
StatsTiles(tech) ==
    {Tile("T0", 1, RowWidth(tech, <<s, t>>), <<TileRow(0, <<s, t>>)>>) :
        s \in StatsSpecs, t \in StatsSpecs}

StatsEdgeCells ==
    {NoEdgeCells,
     EdgeCells(EdgeCellConfig(TRUE, "E1"), NoEdgeCellConfig,
               EdgeCellConfig(TRUE, "DECAP_4"), EdgeCellConfig(FALSE, "E1")),
     EdgeCells(EdgeCellConfig(TRUE, "decap_8"), EdgeCellConfig(TRUE, "E1"),
               NoEdgeCellConfig, EdgeCellConfig(TRUE, "A2")),
     EdgeCells(NoEdgeCellConfig, EdgeCellConfig(TRUE, "A"),
               EdgeCellConfig(TRUE, "A"), EdgeCellConfig(TRUE, "B"))}

InitStats ==
    \E tech \in {TechStats, TechStatsSharedName}, edge_cells \in StatsEdgeCells,
       size \in {<<1, 1>>, <<2, 2>>} :
        \E t0 \in StatsTiles(tech) :
            Fresh(tech, <<t0>>,
                  FabricConfiguration(size[1], size[2], "T0", <<>>, edge_cells, NoMargins))

\* --- edge names: the keys of io_ring.edges, which the parser takes as they are ---

SideNames == {"north", "south", "east", "west", "top"}

\* one edge of any name, auto with up to two pins or manual with one pin
SideEdges ==
    {IOEdge(e, "auto", [k \in 1..n |-> IOPinNoPosition(PinNames[k], "signal", "inout")]) :
        e \in SideNames, n \in 0..2}
    \cup {IOEdge(e, "manual", <<IOPin("p1", "signal", "input", p)>>) :
             e \in SideNames, p \in {1, 4}}

InitSides ==
    \E edge \in SideEdges, margins \in {NoMargins, Margins(MarginH, MarginV)},
       a \in {NoFlags, [NoFlags EXCEPT !.def_only = TRUE]} :
        Started(TechTiles, TilesPins,
                WithIORing(FabricConfiguration(1, 1, "T0", <<>>, NoEdgeCells, margins),
                           IORing(PinSize(1, 1), <<edge>>)),
                a)

\* --- catalogues: the cells list of the technology document, taken as it is ---

\* two cells; the second one's alias may repeat the first one's
CatalogueTechs ==
    {Technology(<<Cell("cell_a", "A", 1, 1), Cell("cell_wide", alias, w, 1)>>) :
        alias \in {"A", "B"}, w \in {1, 2}}

InitCatalogues ==
    \E tech \in CatalogueTechs, rows \in 1..MaxArrayRows, cols \in 1..MaxArrayCols,
       a \in {NoFlags, [NoFlags EXCEPT !.def_only = TRUE]} :
        Started(tech, TilesPins,
                FabricConfiguration(rows, cols, "T0", <<>>, NoEdgeCells, NoMargins), a)

\* --- generators used twice: a region, edge cells and pins, each present or not ---

RegenerateEdgeCells ==
    {NoEdgeCells,
     EdgeCells(EdgeCellConfig(TRUE, "E1"), NoEdgeCellConfig,
               EdgeCellConfig(TRUE, "DECAP_4"), EdgeCellConfig(FALSE, "E1"))}

RegenerateIORings ==
    {NoIORing}
    \cup {IORing(PinSize(1, 1), <<IOEdge("south", "auto", pins)>>) :
             pins \in {l \in AutoPinLists : Len(l) \in 1..2}}
    \cup {IORing(PinSize(1, 1),
                 <<IOEdge("west", "manual", <<IOPin("p1", "signal", "input", 3)>>)>>)}

InitRegenerate ==
    \E edge_cells \in RegenerateEdgeCells, io_ring \in RegenerateIORings,
       regions \in {<<>>, <<Region("r1", "T1", 0, 0, 1, 1)>>},
       margins \in {NoMargins, Margins(MarginH, MarginV)}, cols \in 1..MaxArrayCols :
        Fresh(TechStats,
              <<Tile("T0", 1, 2, <<TileRow(0, <<CellSpec("A", 2)>>)>>),
                Tile("T1", 1, 2, <<TileRow(0, <<CellSpec("B", 1)>>)>>)>>,
              WithIORing(FabricConfiguration(1, cols, "T0", regions, edge_cells, margins),
                         io_ring))

Init == InitTiles \/ InitRegions \/ InitEdges \/ InitPins \/ InitRefs \/ InitStats

Spec == Init /\ [][Next]_vars

SpecPins == InitPins /\ [][Next]_vars

SpecRefs == InitRefs /\ [][Next]_vars

SpecStats == InitStats /\ [][Next]_vars

SpecSides == InitSides /\ [][Next]_vars

SpecCatalogues == InitCatalogues /\ [][Next]_vars

SpecOverlay == InitRegions /\ [][NextOverlay]_vars

SpecRegenerate == InitRegenerate /\ [][NextRegenerate]_vars

SpecTiles == InitTiles /\ [][Next]_vars

SpecRegions == InitRegions /\ [][Next]_vars

SpecEdges == InitEdges /\ [][Next]_vars

---------------------------------------------------------------------------
(* Properties. Each is stated on the documents and the generator's fields,  *)
(* with its own definitions of the sums, rectangles and positions it names, *)
(* so that the operators above are what decides it.                         *)

\* validate_inputs has run (returned or raised)
Validated == Returned("validate_inputs") \/ (pc = "validate_inputs" /\ err # "none")

\* nothing of generate_fabric has happened
NothingGenerated ==
    /\ tile_array = <<>>
    /\ dimensions = NoDimensions
    /\ cell_instances = <<>>
    /\ edge_cell_instances = <<>>

\* the cell definitions of the catalog that carry an alias
CellsOf(tech, alias) == {tech.cells[i] : i \in {k \in 1..Len(tech.cells) : tech.cells[k].alias = alias}}

\* the cell with that alias
TheCell(tech, alias) == CHOOSE c \in CellsOf(tech, alias) : TRUE

\* sum of count x width over the CellSpecs of a row, last spec first
RECURSIVE SitesOf(_, _)
SitesOf(tech, cells) ==
    IF cells = <<>> THEN 0
    ELSE SitesOf(tech, SubSeq(cells, 1, Len(cells) - 1)) +
         cells[Len(cells)].count * TheCell(tech, cells[Len(cells)].type).width

\* the row has a sum (every alias names a cell) and it is the given width
RowSumIs(tech, row, width) ==
    /\ \A k \in 1..Len(row.cells) : CellsOf(tech, row.cells[k].type) # {}
    /\ SitesOf(tech, row.cells) = width

AllRowsSumTo(tech, tile) ==
    \A j \in 1..Len(tile.rows) : RowSumIs(tech, tile.rows[j], tile.width)

RowWidthErrors == {"declared_width", "row_width", "cell_not_found"}

\* C1: a tile passes the row-width check exactly when every one of its rows sums
\* (count x cell width in sites) to the tile's declared width; and when some row of
\* some tile of the library, used by the fabric or not, sums to something else,
\* validate_inputs raises the row-width error and nothing is generated.
C1_RowWidths ==
    LET tiles == {tile_definitions[i] : i \in 1..Len(tile_definitions)}
        bad == \E t \in tiles : ~AllRowsSumTo(technology, t)
    IN /\ \A t \in tiles :
              (validate_row_widths(t, technology) = "ok") <=> AllRowsSumTo(technology, t)
       /\ Validated => ((err \in RowWidthErrors) <=> bad)
       /\ bad => NothingGenerated /\ ~Returned("validate_inputs")

\* C1 witness: validation has rejected a library whose default tile is consistent
\* and whose other tile, used by no region, has a row of a different width
C1_Witness ==
    /\ err = "row_width"
    /\ AllRowsSumTo(technology, tile_definitions[1])
    /\ ~AllRowsSumTo(technology, tile_definitions[2])
    /\ fabric_config.tile_configuration.regions = <<>>
    /\ fabric_config.tile_configuration.default_tile = tile_definitions[1].name

---------------------------------------------------------------------------

Areas == LET regions == fabric_config.tile_configuration.regions
         IN [i \in 1..Len(regions) |-> regions[i].area]

\* the tile-grid cells of a rectangle
CellsIn(area) ==
    {<<r, c>> : r \in area.row_start..(area.row_start + area.height - 1),
                c \in area.col_start..(area.col_start + area.width - 1)}

\* the two rectangles share at least one tile-grid cell
ShareCell(area1, area2) == CellsIn(area1) \cap CellsIn(area2) # {}

\* the region lies entirely within the array
WithinArray(area) ==
    /\ 0 <= area.row_start
    /\ 0 <= area.col_start
    /\ area.row_start + area.height <= fabric_config.array_dimensions.rows
    /\ area.col_start + area.width <= fabric_config.array_dimensions.cols

\* C2: the overlap check rejects a pair of regions if and only if the two rectangles
\* share at least one tile-grid cell, degenerate (width or height 0) regions included:
\* where every region lies within the array, validation ends with the overlap error
\* exactly when some pair of regions shares a cell.
C2_OverlapIffShareCell ==
    (Validated /\ \A i \in 1..Len(Areas) : WithinArray(Areas[i]))
    => ((err = "region_overlap") <=>
            \E i \in 1..Len(Areas), j \in 1..Len(Areas) :
                i < j /\ ShareCell(Areas[i], Areas[j]))

\* C3: validate_inputs accepts a specification only if every region lies entirely
\* within the array (0 <= row_start, 0 <= col_start, row_start + height <= rows,
\* col_start + width <= cols).
C3_AcceptedRegionsWithinArray ==
    Returned("validate_inputs") => \A i \in 1..Len(Areas) : WithinArray(Areas[i])

TileNames == {tile_definitions[i].name : i \in 1..Len(tile_definitions)}

\* C4: for a specification that passed validate_inputs, region overlay completes
\* without error and leaves a grid of exactly array rows x array cols entries, each
\* the name of a tile of the library.
C4_OverlayCompletes ==
    Returned("validate_inputs") =>
        /\ err = "none"
        /\ Returned("_apply_regional_overrides") =>
              /\ Len(tile_array) = fabric_config.array_dimensions.rows
              /\ \A r \in 1..Len(tile_array) :
                    /\ Len(tile_array[r]) = fabric_config.array_dimensions.cols
                    /\ \A c \in 1..Len(tile_array[r]) : tile_array[r][c] \in TileNames

---------------------------------------------------------------------------

\* run-length expansion of a row: each CellSpec's alias, count times, in declaration order
RECURSIVE Expansion(_)
Expansion(cells) ==
    IF cells = <<>> THEN <<>>
    ELSE [k \in 1..cells[1].count |-> cells[1].type] \o Expansion(Tail(cells))

\* total width, in length units, of the first n cells of an expanded row
RECURSIVE WidthBefore(_, _, _)
WidthBefore(tech, aliases, n) ==
    IF n = 0 THEN 0
    ELSE WidthBefore(tech, aliases, n - 1) +
         TheCell(tech, aliases[n]).width * tech.site.width

\* width or height in sites of the edge cell of a side, 0 when absent or disabled
SideWidth(side) ==
    IF fabric_config.edge_cells.present /\ fabric_config.edge_cells[side].present
       /\ fabric_config.edge_cells[side].enable
    THEN TheCell(technology, fabric_config.edge_cells[side].cell).width ELSE 0

SideHeight(side) ==
    IF fabric_config.edge_cells.present /\ fabric_config.edge_cells[side].present
       /\ fabric_config.edge_cells[side].enable
    THEN TheCell(technology, fabric_config.edge_cells[side].cell).height ELSE 0

MarginHorizontal == IF fabric_config.margins.present THEN fabric_config.margins.horizontal ELSE 0

MarginVertical == IF fabric_config.margins.present THEN fabric_config.margins.vertical ELSE 0

\* base = (margin_horizontal + left edge width, margin_vertical + bottom edge height)
BaseX == MarginHorizontal + SideWidth("left") * technology.site.width

BaseY == MarginVertical + SideHeight("bottom") * technology.site.height

\* the tile the resolved grid assigns to a position (0-based)
Assigned(tile_row, tile_col) ==
    CHOOSE t \in {tile_definitions[i] : i \in 1..Len(tile_definitions)} :
        t.name = tile_array[tile_row + 1][tile_col + 1]

\* what the specification places for row j of the tile at a position:
\* <<alias, x, y, tile position>> of each instance, left to right
PlacedRow(tile_row, tile_col, j) ==
    LET tile == Assigned(tile_row, tile_col)
        row == tile.rows[j]
        aliases == Expansion(row.cells)
    IN [n \in 1..Len(aliases) |->
           <<aliases[n],
             BaseX + tile_col * tile.width * technology.site.width
                   + WidthBefore(technology, aliases, n - 1),
             BaseY + tile_row * tile.height * technology.site.height
                   + row.row_id * technology.site.height,
             <<tile_row, tile_col>>>>]

RECURSIVE PlacedRowsUpTo(_, _, _)
PlacedRowsUpTo(tile_row, tile_col, j) ==
    IF j = 0 THEN <<>>
    ELSE PlacedRowsUpTo(tile_row, tile_col, j - 1) \o PlacedRow(tile_row, tile_col, j)

PlacedTile(tile_row, tile_col) ==
    PlacedRowsUpTo(tile_row, tile_col, Len(Assigned(tile_row, tile_col).rows))

\* the tiles of the grid in row-major order, up to the k-th position
RECURSIVE PlacedUpTo(_)
PlacedUpTo(k) ==
    IF k = 0 THEN <<>>
    ELSE LET cols == fabric_config.array_dimensions.cols IN
         PlacedUpTo(k - 1) \o PlacedTile((k - 1) \div cols, (k - 1) % cols)

\* <<alias, x, y, tile position>> of the emitted fabric instances
Emitted ==
    [n \in 1..Len(cell_instances) |->
        <<cell_instances[n].name[1], cell_instances[n].x, cell_instances[n].y,
          cell_instances[n].tile_pos>>]

\* C5: the fabric instances of every placed tile are, row by row, the run-length
\* expansion of the row's CellSpecs in declaration order; the first instance of a row
\* is at x = base_x + tile_col x tile.width x site_width, each following one at the
\* previous x plus the previous width, all at
\* y = base_y + tile_row x tile.height x site_height + row_id x site_height.
C5_RunLengthPlacement ==
    Returned("_generate_fabric_cells") =>
        Emitted = PlacedUpTo(fabric_config.array_dimensions.rows *
                             fabric_config.array_dimensions.cols)

\* C5 witness: generation has placed, in a tile beyond the first row and column of
\* the grid, a cell A right after a two-site cell B of the same row
C5_Witness ==
    /\ Returned("_generate_fabric_cells")
    /\ \E n \in 2..Len(cell_instances) :
          /\ cell_instances[n].tile_pos[1] >= 1
          /\ cell_instances[n].tile_pos[2] >= 1
          /\ cell_instances[n].cell_pos[2] = 1
          /\ cell_instances[n].name[1] = "A"
          /\ cell_instances[n - 1].name[1] = "B"

\* total CellSpec count of a tile
RECURSIVE CountOf(_)
CountOf(cells) == IF cells = <<>> THEN 0 ELSE cells[1].count + CountOf(Tail(cells))

RECURSIVE TileCountUpTo(_, _)
TileCountUpTo(tile, j) ==
    IF j = 0 THEN 0 ELSE TileCountUpTo(tile, j - 1) + CountOf(tile.rows[j].cells)

TileCount(tile) == TileCountUpTo(tile, Len(tile.rows))

RECURSIVE GridCountUpTo(_)
GridCountUpTo(k) ==
    IF k = 0 THEN 0
    ELSE LET cols == fabric_config.array_dimensions.cols IN
         GridCountUpTo(k - 1) + TileCount(Assigned((k - 1) \div cols, (k - 1) % cols))

\* the single grid position a 1 x 1 region overrides, if that is all the regions do
OneCellOverride ==
    /\ Len(fabric_config.tile_configuration.regions) = 1
    /\ Areas[1].width = 1
    /\ Areas[1].height = 1

\* C6: the number of fabric instances is the sum over all grid positions of the
\* CellSpec count of the tile the resolved grid assigns there; so a region that
\* overrides exactly one position changes the all-default total by the difference of
\* the two tiles' counts.
C6_CellCount ==
    Returned("_generate_fabric_cells") =>
        LET positions == fabric_config.array_dimensions.rows *
                         fabric_config.array_dimensions.cols
            default == CHOOSE t \in {tile_definitions[i] : i \in 1..Len(tile_definitions)} :
                           t.name = fabric_config.tile_configuration.default_tile
            other == CHOOSE t \in {tile_definitions[i] : i \in 1..Len(tile_definitions)} :
                         t.name = fabric_config.tile_configuration.regions[1].tile_type
        IN /\ Len(cell_instances) = GridCountUpTo(positions)
           /\ OneCellOverride =>
                 Len(cell_instances) =
                     positions * TileCount(default) + TileCount(other) - TileCount(default)

\* C6 witness: generation has run on a grid of several positions, one of them
\* overridden by a tile with another cell count than the default tile's
C6_Witness ==
    /\ Returned("_generate_fabric_cells")
    /\ OneCellOverride
    /\ fabric_config.array_dimensions.rows * fabric_config.array_dimensions.cols > 1
    /\ TileCount(tile_definitions[1]) # TileCount(tile_definitions[2])
    /\ TileCount(tile_definitions[2]) > 0

\* the names of all instances, fabric then edge
AllNames ==
    [n \in 1..Len(cell_instances) |-> cell_instances[n].name] \o
    [n \in 1..Len(edge_cell_instances) |-> edge_cell_instances[n].name]

\* C7: after a generation run on a validated specification no two cell instances,
\* fabric and edge together, have the same instance name.
C7_NamesUnique ==
    Returned("_generate_edge_cells") =>
        \A m \in 1..Len(AllNames), n \in 1..Len(AllNames) :
            m # n => AllNames[m] # AllNames[n]

---------------------------------------------------------------------------

DefaultTile ==
    CHOOSE t \in {tile_definitions[i] : i \in 1..Len(tile_definitions)} :
        t.name = fabric_config.tile_configuration.default_tile

FabricRows == fabric_config.array_dimensions.rows * DefaultTile.height

FabricSites == fabric_config.array_dimensions.cols * DefaultTile.width

\* C8: fabric_rows = array_rows x default_tile.height, fabric_sites = array_cols x
\* default_tile.width, core_width = (fabric_sites + left + right edge width) x
\* site_width, core_height = (fabric_rows + top + bottom edge height) x site_height,
\* die = core + 2 x margin on each axis; a side that is absent or disabled
\* contributes 0 and absent margins are 0.
C8_Dimensions ==
    Returned("_calculate_dimensions") =>
        LET core_width == (FabricSites + SideWidth("left") + SideWidth("right"))
                          * technology.site.width
            core_height == (FabricRows + SideHeight("top") + SideHeight("bottom"))
                           * technology.site.height
        IN /\ dimensions.fabric_rows = FabricRows
           /\ dimensions.fabric_sites = FabricSites
           /\ dimensions.core_width = core_width
           /\ dimensions.core_height = core_height
           /\ dimensions.die_width = core_width + 2 * MarginHorizontal
           /\ dimensions.die_height = core_height + 2 * MarginVertical
           /\ ~fabric_config.margins.present =>
                 /\ dimensions.die_width = dimensions.core_width
                 /\ dimensions.die_height = dimensions.core_height

\* C8 witness: dimensions computed with margins, for a left side enabled with a cell
\* wider than high or higher than wide, a right side present but disabled, a top
\* side absent and a bottom side enabled
C8_Witness ==
    /\ Returned("_calculate_dimensions")
    /\ fabric_config.margins.present
    /\ fabric_config.edge_cells.present
    /\ SideWidth("left") # SideHeight("left")
    /\ fabric_config.edge_cells.right.present /\ ~fabric_config.edge_cells.right.enable
    /\ ~fabric_config.edge_cells.top.present
    /\ SideHeight("bottom") > 0
    /\ DefaultTile.height # DefaultTile.width

\* the number of edge instances emitted for a side
EdgeCount(side) ==
    Cardinality({n \in 1..Len(edge_cell_instances) :
                    edge_cell_instances[n].edge_direction = side})

IsEnabled(side) ==
    fabric_config.edge_cells.present /\ fabric_config.edge_cells[side].present
    /\ fabric_config.edge_cells[side].enable

\* ceil(t / w): the least n with n x w >= t
Ceil(t, w) == CHOOSE n \in 0..t : n * w >= t /\ \A m \in 0..(n - 1) : m * w < t

\* C9: an enabled left or right side emits exactly fabric_rows instances; an enabled
\* top or bottom side emits exactly ceil(T / w) instances, T = fabric_sites + enabled
\* left width + enabled right width, w the side's own cell width; an absent or
\* disabled side emits none.
C9_EdgeCounts ==
    Returned("_generate_edge_cells") =>
        LET T == FabricSites + SideWidth("left") + SideWidth("right") IN
        /\ EdgeCount("left") = IF IsEnabled("left") THEN FabricRows ELSE 0
        /\ EdgeCount("right") = IF IsEnabled("right") THEN FabricRows ELSE 0
        /\ EdgeCount("top") = IF IsEnabled("top") THEN Ceil(T, SideWidth("top")) ELSE 0
        /\ EdgeCount("bottom") =
               IF IsEnabled("bottom") THEN Ceil(T, SideWidth("bottom")) ELSE 0
        /\ Len(edge_cell_instances) =
               EdgeCount("left") + EdgeCount("right") + EdgeCount("top") + EdgeCount("bottom")

\* C9 witness: edges generated with left and top enabled, right disabled, and a top
\* cell whose width does not divide the covered sites
C9_Witness ==
    /\ Returned("_generate_edge_cells")
    /\ IsEnabled("left") /\ IsEnabled("top") /\ IsEnabled("bottom")
    /\ fabric_config.edge_cells.right.present /\ ~IsEnabled("right")
    /\ (FabricSites + SideWidth("left")) % SideWidth("top") # 0
    /\ FabricRows > 1

\* two placed rectangles intersect on a positive area
Overlap(a, b) ==
    /\ a.x < b.x + b.width
    /\ b.x < a.x + a.width
    /\ a.y < b.y + b.height
    /\ b.y < a.y + a.height

\* C10: whatever the enabled sides and the edge cell sizes, no edge instance of one
\* side overlaps on a positive area an edge instance of another side.
C10_NoCornerOverlap ==
    Returned("_generate_edge_cells") =>
        \A m \in 1..Len(edge_cell_instances), n \in 1..Len(edge_cell_instances) :
            edge_cell_instances[m].edge_direction # edge_cell_instances[n].edge_direction
            => ~Overlap(edge_cell_instances[m], edge_cell_instances[n])

---------------------------------------------------------------------------

\* _place_io_pins has run (returned or raised)
PinsDone == Returned("_place_io_pins") \/ (pc = "_place_io_pins" /\ err # "none")

\* the die, from the configuration
DieWidth ==
    (FabricSites + SideWidth("left") + SideWidth("right")) * technology.site.width
    + 2 * MarginHorizontal

DieHeight ==
    (FabricRows + SideHeight("top") + SideHeight("bottom")) * technology.site.height
    + 2 * MarginVertical

RingEdges == fabric_config.io_ring.edges

AlongX(edge_name) == edge_name \in {"north", "south"}

\* along the axis of an edge: the pin size, the margin and the die dimension
AxisSize(edge_name) ==
    IF AlongX(edge_name) THEN fabric_config.io_ring.pin_size.width
    ELSE fabric_config.io_ring.pin_size.height

AxisMargin(edge_name) == IF AlongX(edge_name) THEN MarginHorizontal ELSE MarginVertical

AxisDie(edge_name) == IF AlongX(edge_name) THEN DieWidth ELSE DieHeight

\* the coordinate of a placed pin along and across the axis of its edge
AxisCoord(pin) == IF AlongX(pin.edge) THEN pin.x ELSE pin.y

\* the value v (a fraction n/d) is half the integer twice
IsHalf(v, twice) == 2 * v.n = twice * v.d

\* the manual pins of the ring in placement order, each with the name of its edge
RECURSIVE ManualPinsUpTo(_)
ManualPinsUpTo(i) ==
    IF i = 0 THEN <<>>
    ELSE ManualPinsUpTo(i - 1) \o
         (IF RingEdges[i].spacing = "manual"
          THEN [k \in 1..Len(RingEdges[i].pins) |->
                   [edge |-> RingEdges[i].edge_name, pin |-> RingEdges[i].pins[k]]]
          ELSE <<>>)

ManualPins == ManualPinsUpTo(Len(RingEdges))

\* twice the low end of the rectangle of a manual pin: position - size / 2
TwiceLow(m) == 2 * m.pin.position - AxisSize(m.edge)

\* the rectangle lies within the margin-inset span of its axis
Fits(m) ==
    /\ TwiceLow(m) >= 2 * AxisMargin(m.edge)
    /\ TwiceLow(m) + 2 * AxisSize(m.edge) <= 2 * (AxisDie(m.edge) - AxisMargin(m.edge))

ManualEdgeNames ==
    {RingEdges[i].edge_name : i \in {j \in 1..Len(RingEdges) : RingEdges[j].spacing = "manual"}}

IsManualPin(pin) == pin.edge \in ManualEdgeNames

\* the placed pins of the manual edges, in placement order
PlacedManual == SelectSeq(placed_pins, IsManualPin)

\* C11: a pin of a manual-spacing edge is rejected with an error if and only if its
\* rectangle, from position - size / 2 along the axis of its edge, extends outside
\* [margin, die - margin] on that axis (x, width, margin_horizontal, die_width for
\* north and south; y, height, margin_vertical, die_height for east and west); the
\* pins before the first such pin are placed with exactly that coordinate, and when
\* there is none every manual pin is.
C11_ManualPinsRejectedIffOutside ==
    PinsDone =>
        LET bad == {k \in 1..Len(ManualPins) : ~Fits(ManualPins[k])}
            first == IF bad = {} THEN Len(ManualPins) + 1
                     ELSE CHOOSE k \in bad : \A j \in bad : k <= j
        IN /\ (err = "pin_outside_margins") <=> (bad # {})
           /\ Len(PlacedManual) = first - 1
           /\ \A k \in 1..Len(PlacedManual) :
                 /\ PlacedManual[k].name = ManualPins[k].pin.name
                 /\ PlacedManual[k].edge = ManualPins[k].edge
                 /\ IsHalf(AxisCoord(PlacedManual[k]), TwiceLow(ManualPins[k]))

\* C11 witness: a manual edge whose first pin was placed touching the low margin
\* edge and whose second pin was rejected
C11_Witness ==
    /\ pc = "_place_io_pins" /\ err = "pin_outside_margins"
    /\ Len(ManualPins) = 2
    /\ Len(placed_pins) = 1
    /\ TwiceLow(ManualPins[1]) = 2 * AxisMargin(ManualPins[1].edge)
    /\ TwiceLow(ManualPins[2]) + 2 * AxisSize(ManualPins[2].edge)
           > 2 * (AxisDie(ManualPins[2].edge) - AxisMargin(ManualPins[2].edge))

---------------------------------------------------------------------------

\* the placed pins of one edge, in placement order
PinsOfEdge(edge_name) == SelectSeq(placed_pins, LAMBDA pin : pin.edge = edge_name)

\* the fraction v is a whole number of k-ths
WholeTimes(v, k) == (v.n * k) % v.d = 0

\* k times the centre along the axis (coordinate + size / 2) of a placed pin, for an
\* even k and a coordinate that is a whole number of k-ths
CentreTimes(pin, k) ==
    (AxisCoord(pin).n * k) \div AxisCoord(pin).d + (k \div 2) * AxisSize(pin.edge)

\* the centres of the pins of an auto edge with N pins, all multiplied by 2(N + 1)
Centres(edge) ==
    LET placed == PinsOfEdge(edge.edge_name)
    IN [i \in 1..Len(placed) |-> CentreTimes(placed[i], 2 * (Len(edge.pins) + 1))]

\* C12: on an auto-spacing edge with N >= 1 pins the pin centres along the axis are
\* strictly increasing in declaration order, symmetric about the midpoint of
\* [margin, die - margin] (centre i + centre N+1-i = die), spaced by span / (N + 1),
\* the first one spacing after margin and the last one spacing before die - margin,
\* with span = die - 2 x margin. Stated on the centres multiplied by K = 2(N + 1).
C12_AutoPinsEvenlySpaced ==
    Returned("_place_io_pins") =>
        \A e \in 1..Len(RingEdges) :
            (RingEdges[e].spacing = "auto" /\ Len(RingEdges[e].pins) >= 1) =>
                LET edge == RingEdges[e]
                    N == Len(edge.pins)
                    K == 2 * (N + 1)
                    margin == AxisMargin(edge.edge_name)
                    die == AxisDie(edge.edge_name)
                    span == die - 2 * margin
                    placed == PinsOfEdge(edge.edge_name)
                    centre == Centres(edge)
                IN /\ Len(placed) = N
                   /\ \A i \in 1..N :
                         /\ placed[i].name = edge.pins[i].name
                         /\ WholeTimes(AxisCoord(placed[i]), K)
                         /\ centre[i] + centre[N + 1 - i] = K * die
                         /\ i < N => centre[i] < centre[i + 1]
                         /\ i < N => centre[i + 1] - centre[i] = 2 * span
                   /\ centre[1] = K * margin + 2 * span
                   /\ centre[N] = K * (die - margin) - 2 * span

\* C12 witness: pins placed for an auto edge of three pins along y, with margins and
\* a pin size of 5 x 2
C12_Witness ==
    /\ Returned("_place_io_pins")
    /\ fabric_config.margins.present
    /\ fabric_config.io_ring.pin_size = PinSize(5, 2)
    /\ \E e \in 1..Len(RingEdges) :
          /\ RingEdges[e].spacing = "auto"
          /\ RingEdges[e].edge_name = "east"
          /\ Len(RingEdges[e].pins) = 3
          /\ Len(PinsOfEdge("east")) = 3

---------------------------------------------------------------------------

\* the fraction v is the integer c
IsWhole(v, c) == v.n = c * v.d

\* the spacing mode of the edge a placed pin belongs to
ModeOf(pin) ==
    LET e == CHOOSE i \in 1..Len(RingEdges) : RingEdges[i].edge_name = pin.edge
    IN RingEdges[e].spacing

\* C13: in both spacing modes a placed pin touches the die boundary of its side and
\* extends inward: y = 0 on south, y = die_height - pin height on north, x = 0 on
\* west, x = die_width - pin width on east.
C13_PinsTouchTheirSide ==
    PinsDone =>
        \A k \in 1..Len(placed_pins) :
            LET pin == placed_pins[k] IN
            /\ pin.edge \in {"south", "north", "west", "east"}
            /\ pin.width = fabric_config.io_ring.pin_size.width
            /\ pin.height = fabric_config.io_ring.pin_size.height
            /\ pin.edge = "south" => IsWhole(pin.y, 0)
            /\ pin.edge = "north" => IsWhole(pin.y, DieHeight - pin.height)
            /\ pin.edge = "west" => IsWhole(pin.x, 0)
            /\ pin.edge = "east" => IsWhole(pin.x, DieWidth - pin.width)

\* C13 witness: pins placed on north by manual spacing and on east by auto spacing
C13_Witness ==
    /\ Returned("_place_io_pins")
    /\ \E k \in 1..Len(placed_pins) :
          placed_pins[k].edge = "north" /\ ModeOf(placed_pins[k]) = "manual"
    /\ \E k \in 1..Len(placed_pins) :
          placed_pins[k].edge = "east" /\ ModeOf(placed_pins[k]) = "auto"

---------------------------------------------------------------------------

\* the ring has edges and none of them declares a pin
OnlyZeroPinEdges ==
    /\ fabric_config.io_ring.present
    /\ RingEdges # <<>>
    /\ \A e \in 1..Len(RingEdges) : RingEdges[e].pins = <<>>

\* C14: an I/O edge configured with zero pins, in either spacing mode and with or
\* without margins, produces no placed pin and causes no error at the construction
\* of the fabric configuration, at validation or at generation.
C14_ZeroPinEdgeIsNoError ==
    OnlyZeroPinEdges => (err = "none" /\ placed_pins = <<>>)

---------------------------------------------------------------------------

MissingDefaultTile == fabric_config.tile_configuration.default_tile \notin TileNames

MissingRegionTile ==
    \E i \in 1..Len(fabric_config.tile_configuration.regions) :
        fabric_config.tile_configuration.regions[i].tile_type \notin TileNames

\* some side that is present with enable = true names an alias without a cell
MissingEdgeAlias ==
    \E side \in {"left", "right", "top", "bottom"} :
        IsEnabled(side) /\ CellsOf(technology, fabric_config.edge_cells[side].cell) = {}

\* some side that is absent or disabled names an alias without a cell
UnusedMissingAlias ==
    /\ fabric_config.edge_cells.present
    /\ \E side \in {"left", "right", "top", "bottom"} :
          /\ fabric_config.edge_cells[side].present
          /\ ~fabric_config.edge_cells[side].enable
          /\ CellsOf(technology, fabric_config.edge_cells[side].cell) = {}

\* C15: validate_inputs raises whenever the default tile is not in the library, or
\* some region's tile_type is not, or some side present with enable = true names an
\* alias not in the technology; an absent or disabled side may name any alias; and
\* with none of the three (the other checks being satisfied) it returns normally.
C15_MissingReferencesRejected ==
    Validated =>
        /\ (MissingDefaultTile \/ MissingRegionTile \/ MissingEdgeAlias)
               <=> (pc = "validate_inputs" /\ err \in {"default_tile", "region_tile", "edge_cell"})
        /\ ~(MissingDefaultTile \/ MissingRegionTile \/ MissingEdgeAlias)
               => (Returned("validate_inputs") /\ err = "none")
        /\ err # "none" => NothingGenerated

\* C15 witness: validate_inputs has returned for a specification with a region, an
\* enabled side and a disabled side that names an alias the technology does not have
C15_Witness ==
    /\ Returned("validate_inputs")
    /\ err = "none"
    /\ UnusedMissingAlias
    /\ \E side \in {"left", "right", "top", "bottom"} : IsEnabled(side)
    /\ fabric_config.tile_configuration.regions # <<>>

---------------------------------------------------------------------------

\* something has been written: the output directory exists or a file does
Written == output.dir \/ output.files # {}

\* the documents as load_inputs reads them are rejected at construction: a manual
\* pin without a position, or a ring with edges and no margins
RejectedAtLoad ==
    \/ \E e \in 1..Len(RingEdges) :
           /\ RingEdges[e].spacing = "manual"
           /\ \E k \in 1..Len(RingEdges[e].pins) : ~RingEdges[e].pins[k].has_position
    \/ fabric_config.io_ring.present /\ RingEdges # <<>> /\ ~fabric_config.margins.present

\* some manual pin of the loaded configuration does not fit within the margins
ManualPinOutside ==
    Returned("load_inputs") /\ \E k \in 1..Len(ManualPins) : ~Fits(ManualPins[k])

\* C16: in a run of main the output directory is created and a file (DEF, LEF, JSON,
\* SVG) is written only after loading, validation and the whole of generation, manual
\* pin validation and statistics included, have completed without error; an error in
\* those stages ends the run with a non-zero return value and nothing written.
C16_NoOutputUnlessGenerated ==
    /\ Written => (Returned("_calculate_statistics") /\ err = "none")
    /\ (RejectedAtLoad \/ ManualPinOutside) => ~Written
    /\ err # "none" => (~Written /\ exit_code \in {NotReturned, 1})
    /\ exit_code = 0 => (err = "none" /\ "def" \in output.files /\ output.dir)
    /\ exit_code = 1 => err # "none"

\* C16 witness: main has returned 1 after a manual pin was rejected in the pin
\* placement stage, with cells placed and nothing written
C16_Witness ==
    /\ exit_code = 1
    /\ pc = "_place_io_pins"
    /\ err = "pin_outside_margins"
    /\ cell_instances # <<>>
    /\ ~Written

\* generate_fabric has raised: the run stopped with an error in one of its stages
GenerationFailed ==
    /\ err # "none"
    /\ StageNo(pc) >= StageNo("_initialize_tile_array")
    /\ StageNo(pc) <= StageNo("_calculate_statistics")

\* C17: whenever generate_fabric fails with an error, the generator's fabric cell
\* instance list, edge cell instance list and placed pin list are as they were
\* before the call, which is empty for a fresh generator.
C17_FailedGenerationLeavesNothing ==
    GenerationFailed =>
        /\ cell_instances = <<>>
        /\ edge_cell_instances = <<>>
        /\ placed_pins = <<>>

\* the DEF file of the run has been written
DefWritten == "def" \in output.files

\* the physical coordinate v in database units, before conversion to an integer
InDatabaseUnits(v) == Times(v, Num(technology.units.distance))

\* t is v truncated toward zero: t has the sign of v, |t| <= |v| < |t| + 1
IsTruncationOf(t, v) ==
    /\ t * v.n >= 0
    /\ Abs(t) * v.d <= Abs(v.n)
    /\ Abs(v.n) < (Abs(t) + 1) * v.d

\* the components of the layout in the order the DEF writer lists them
AllComponents == cell_instances \o edge_cell_instances

\* C18: every coordinate of the DEF file, a component's ( x y ), a pin's rectangle
\* ( x y ) ( x+width y+height ) and the die area corner, is the physical coordinate
\* times units.distance truncated toward zero, also when the coordinate is negative.
C18_DefCoordinatesTruncated ==
    DefWritten =>
        /\ IsTruncationOf(output.def.diearea[1], InDatabaseUnits(Num(DieWidth)))
        /\ IsTruncationOf(output.def.diearea[2], InDatabaseUnits(Num(DieHeight)))
        /\ Len(output.def.components) = Len(AllComponents)
        /\ \A k \in 1..Len(AllComponents) :
               /\ IsTruncationOf(output.def.components[k][1],
                                 InDatabaseUnits(Num(AllComponents[k].x)))
               /\ IsTruncationOf(output.def.components[k][2],
                                 InDatabaseUnits(Num(AllComponents[k].y)))
        /\ Len(output.def.pins) = Len(placed_pins)
        /\ \A k \in 1..Len(placed_pins) :
               LET pin == placed_pins[k] IN
               /\ IsTruncationOf(output.def.pins[k][1], InDatabaseUnits(pin.x))
               /\ IsTruncationOf(output.def.pins[k][2], InDatabaseUnits(pin.y))
               /\ IsTruncationOf(output.def.pins[k][3],
                                 InDatabaseUnits(Plus(pin.x, Num(pin.width))))
               /\ IsTruncationOf(output.def.pins[k][4],
                                 InDatabaseUnits(Plus(pin.y, Num(pin.height))))

\* C18 witness: a DEF file holding a pin whose x is negative and not a whole number of
\* database units, next to a pin corner with a fractional part above one half
C18_Witness ==
    /\ DefWritten
    /\ \E k \in 1..Len(placed_pins) :
           LET v == InDatabaseUnits(placed_pins[k].x) IN
           /\ v.n < 0
           /\ v.d # 1
           /\ output.def.pins[k][1] * v.d > v.n
    /\ \E k \in 1..Len(placed_pins) :
           LET v == InDatabaseUnits(placed_pins[k].x) IN
           /\ v.n > 0
           /\ 2 * (v.n - output.def.pins[k][1] * v.d) > v.d

\* _calculate_statistics has returned
StatsDone == Returned("_calculate_statistics")

\* the alias an instance was placed from: the instance name begins with it
PlacedFrom(instance) == instance.name[1]

\* the cell definition of the catalogue with the alias
DefinitionOf(alias) ==
    technology.cells[CHOOSE k \in 1..Len(technology.cells) :
                         technology.cells[k].alias = alias]

\* the leakage the definition declares, in micro-units, 0 when it has no power data
DeclaredLeakage(alias) ==
    IF DefinitionOf(alias).power.present THEN DefinitionOf(alias).power.leakage ELSE 0

\* the aliases of the catalogue
CatalogueAliases == {technology.cells[k].alias : k \in 1..Len(technology.cells)}

\* how many instances of a list were placed from one of the aliases
PlacedCount(instances, aliases) ==
    Cardinality({k \in 1..Len(instances) : PlacedFrom(instances[k]) \in aliases})

\* the declared leakage, in micro-units, of all placed instances that were placed
\* from one of the aliases
RECURSIVE DeclaredLeakageOver(_)
DeclaredLeakageOver(aliases) ==
    IF aliases = {} THEN 0
    ELSE LET a == CHOOSE x \in aliases : TRUE
         IN DeclaredLeakage(a) * PlacedCount(AllComponents, {a})
            + DeclaredLeakageOver(aliases \ {a})

\* C19: after a generation run total_leakage_power is the sum, over all placed
\* instances (fabric and edge), of the leakage declared by the cell definition the
\* instance was placed from (0 without power data), converted once from micro-units
\* to watts; an instance without power data causes no error.
C19_LeakageIsSumOverInstances ==
    /\ StatsDone =>
           stats.total_leakage_power.n * 1000000 =
               DeclaredLeakageOver(CatalogueAliases) * stats.total_leakage_power.d
    /\ pc = "_calculate_statistics" => err = "none"

\* the aliases of the catalogue that begin with DECAP in some letter case
DecapAliases == CatalogueAliases \cap {"DECAP_4", "decap_8"}

\* how many edge instances of the alias stand on the side
PlacedOnSide(alias, side) ==
    Cardinality({k \in 1..Len(edge_cell_instances) :
                    /\ PlacedFrom(edge_cell_instances[k]) = alias
                    /\ edge_cell_instances[k].edge_direction = side})

\* the counts of a dictionary added up
RECURSIVE SumOfCounts(_, _)
SumOfCounts(d, keys) ==
    IF keys = {} THEN 0
    ELSE LET k == CHOOSE x \in keys : TRUE IN d[k] + SumOfCounts(d, keys \ {k})

\* C20: after a generation run cell_counts[a] is the number of fabric instances
\* placed from alias a, edge_cell_counts[a_side] the number of edge instances of
\* alias a on that side, combined_cell_counts holds the fabric plus edge instances of
\* every alias not beginning with DECAP and, under the one key DECAP, the instances
\* of all DECAP aliases together; total_cells and total_edge_cells are the lengths
\* of the two instance lists and the combined counts add up to their sum.
C20_CountsPerAlias ==
    StatsDone =>
        /\ \A a \in CatalogueAliases :
               /\ Get(stats.cell_counts, a) = PlacedCount(cell_instances, {a})
               /\ \A side \in {"left", "right", "top", "bottom"} :
                      Get(stats.edge_cell_counts, <<a, "_", side>>) = PlacedOnSide(a, side)
               /\ a \notin DecapAliases =>
                      Get(stats.combined_cell_counts, a) = PlacedCount(AllComponents, {a})
               /\ a \in DecapAliases /\ a # "DECAP" => a \notin DOMAIN stats.combined_cell_counts
        /\ Get(stats.combined_cell_counts, "DECAP") = PlacedCount(AllComponents, DecapAliases)
        /\ stats.total_cells = Len(cell_instances)
        /\ stats.total_edge_cells = Len(edge_cell_instances)
        /\ SumOfCounts(stats.combined_cell_counts, DOMAIN stats.combined_cell_counts)
               = stats.total_cells + stats.total_edge_cells

\* C23: every Tile that was constructed and passed validation has exactly `height`
\* rows; a tile with another number of rows, an empty row list under a positive
\* height included, is rejected.
C23_TilesHaveHeightRows ==
    Returned("validate_inputs") =>
        \A t \in 1..Len(tile_definitions) :
            Len(tile_definitions[t].rows) = tile_definitions[t].height

\* the class of the first check of validate_inputs, in the order (a) tile row widths,
\* (b) default tile, (c) region tile types, (d) enabled edge-cell aliases,
\* (e) region bounds, (f) region overlap, that the loaded inputs violate
EarliestViolation ==
    LET regions == fabric_config.tile_configuration.regions
        rows == fabric_config.array_dimensions.rows
        cols == fabric_config.array_dimensions.cols
    IN IF \E t \in 1..Len(tile_definitions) :
              validate_row_widths(tile_definitions[t], technology) # "ok"
       THEN "row_widths"
       ELSE IF IsNoneTile(get_tile_by_name(tile_definitions,
                                           fabric_config.tile_configuration.default_tile))
       THEN "default_tile"
       ELSE IF \E i \in 1..Len(regions) :
                   IsNoneTile(get_tile_by_name(tile_definitions, regions[i].tile_type))
       THEN "region_tile"
       ELSE IF \E s \in {"left", "right", "top", "bottom"} :
                   /\ SideEnabled(fabric_config, s)
                   /\ IsNoneCell(get_cell_by_alias(technology, fabric_config.edge_cells[s].cell))
       THEN "edge_cell"
       ELSE IF \E i \in 1..Len(regions) : ExtendsBeyond(regions[i].area, rows, cols)
       THEN "region_bounds"
       ELSE IF \E i \in 1..Len(regions), j \in 1..Len(regions) :
                   i < j /\ _regions_overlap(regions[i].area, regions[j].area)
       THEN "region_overlap"
       ELSE "none"

\* the class of the error validate_inputs raised
RaisedViolation ==
    IF err \in {"cell_not_found", "declared_width", "row_width"} THEN "row_widths" ELSE err

\* C27: when the loaded inputs violate several checks, validate_inputs raises the
\* error of the earliest one in the order tile row widths, default tile, region tile
\* types, enabled edge-cell aliases, region bounds, region overlap; with a region out
\* of bounds and an overlapping pair, the out-of-bounds error is the one reported.
C27_EarliestViolationRaised ==
    (pc = "validate_inputs" /\ err # "none") => RaisedViolation = EarliestViolation

\* C25: in both spacing modes and for every pin size and pin count, a placed pin lies
\* within the margins along its edge: margin_horizontal <= x and
\* x + width <= die_width - margin_horizontal on north and south, and the same with
\* y, height, margin_vertical and die_height on east and west.
C25_PinsWithinMargins ==
    PinsDone =>
        \A k \in 1..Len(placed_pins) :
            LET pin == placed_pins[k]
                v == AxisCoord(pin)
                size == AxisSize(pin.edge)
            IN /\ AxisMargin(pin.edge) * v.d <= v.n
               /\ v.n + size * v.d <= (AxisDie(pin.edge) - AxisMargin(pin.edge)) * v.d

CompassSides == {"north", "south", "east", "west"}

\* the pin touches the die boundary of that side
OnSide(pin, side) ==
    CASE side = "south" -> IsWhole(pin.y, 0)
      [] side = "north" -> IsWhole(pin.y, DieHeight - pin.height)
      [] side = "west" -> IsWhole(pin.x, 0)
      [] side = "east" -> IsWhole(pin.x, DieWidth - pin.width)
      [] OTHER -> FALSE

\* C30: every placed pin carries a side that is one of north, south, east, west and,
\* under auto as under manual spacing, sits on the die boundary of the side its edge
\* names; an I/O edge of any other name yields no placed pin.
C30_PinsOnCompassSides ==
    PinsDone =>
        /\ \A k \in 1..Len(placed_pins) :
              /\ placed_pins[k].edge \in CompassSides
              /\ OnSide(placed_pins[k], placed_pins[k].edge)
        /\ \A e \in 1..Len(RingEdges) :
              RingEdges[e].edge_name \notin CompassSides
                  => PinsOfEdge(RingEdges[e].edge_name) = <<>>

\* C24: in every Technology that parsing and validate_inputs accepted, no two cells
\* of the catalogue carry the same alias.
C24_AliasesUnique ==
    Returned("validate_inputs") =>
        \A i \in 1..Len(technology.cells), j \in 1..Len(technology.cells) :
            technology.cells[i].alias = technology.cells[j].alias => i = j

\* the instance lies inside the rectangle reserved for the fabric
InsideFabric(instance) ==
    /\ BaseX <= instance.x
    /\ instance.x + instance.width <= BaseX + FabricSites * technology.site.width
    /\ BaseY <= instance.y
    /\ instance.y + instance.height <= BaseY + FabricRows * technology.site.height

\* C28: for every specification that passed validate_inputs, no two fabric cell
\* instances overlap on a positive area and every fabric cell instance lies inside
\* [base_x, base_x + fabric_sites x site_width] by
\* [base_y, base_y + fabric_rows x site_height].
C28_FabricCellsDisjointAndInside ==
    Returned("_generate_fabric_cells") =>
        /\ \A m \in 1..Len(cell_instances), n \in 1..Len(cell_instances) :
              m # n => ~Overlap(cell_instances[m], cell_instances[n])
        /\ \A m \in 1..Len(cell_instances) : InsideFabric(cell_instances[m])

\* C21: applying the regions is idempotent: on a grid on which the ordered list of
\* regions has been applied, applying the whole list a second time completes and
\* leaves every cell as it was.
C21_OverlayIdempotent ==
    [][ApplyRegionalOverridesAgain => (tile_array' = tile_array /\ err' = "none")]_vars

\* C21 witness: the list was applied a second time to a grid on which two regions of
\* different tiles, one of them of several cells, had been stamped
C21_Witness ==
    /\ pc = OverlaidTwice
    /\ Len(fabric_config.tile_configuration.regions) = 2
    /\ \E r \in 1..Len(tile_array) : \E c \in 1..Len(tile_array[r]) :
           tile_array[r][c] = "T1"
    /\ \E r \in 1..Len(tile_array) : \E c, d \in 1..Len(tile_array[r]) :
           c # d /\ tile_array[r][c] = "T2" /\ tile_array[r][d] = "T2"

\* the regions, by place in the declaration, whose rectangle contains the grid cell
\* (row, col), 0-based
RegionsContaining(row, col) ==
    {i \in 1..Len(Areas) :
        /\ Areas[i].row_start <= row /\ row < Areas[i].row_start + Areas[i].height
        /\ Areas[i].col_start <= col /\ col < Areas[i].col_start + Areas[i].width}

\* the tile the declaration gives the cell: that of the last region containing it,
\* else the default tile
DeclaredTile(row, col) ==
    LET hits == RegionsContaining(row, col) IN
    IF hits = {} THEN fabric_config.tile_configuration.default_tile
    ELSE fabric_config.tile_configuration.regions[
             CHOOSE i \in hits : \A j \in hits : j <= i].tile_type

\* C26: after the overlay, also when validation was skipped and regions overlap,
\* every cell of the grid holds the tile type of the last region in declaration order
\* whose rectangle contains it, and the default tile when no region contains it.
C26_LaterRegionsWin ==
    (pc = "_calculate_dimensions" /\ err = "none") =>
        \A r \in 1..Len(tile_array) : \A c \in 1..Len(tile_array[r]) :
            tile_array[r][c] = DeclaredTile(r - 1, c - 1)

\* the configuration with the regions declared in the order p, a permutation of
\* their places
Reordered(p) ==
    [fabric_config EXCEPT !.tile_configuration.regions =
        [i \in 1..Len(Areas) |-> fabric_config.tile_configuration.regions[p[i]]]]

\* C22: for a specification that passed validate_inputs the resolved grid does not
\* depend on the order in which the regions are declared: the overlay of every
\* permutation of the region list gives the grid the declared order gives.
C22_OrderOfRegionsIrrelevant ==
    Returned("_apply_regional_overrides") =>
        \A p \in Permutations(1..Len(Areas)) :
            _apply_regional_overrides(_initialize_tile_array(Reordered(p)),
                                      Reordered(p)).grid = tile_array

\* C29: a second call of generate_fabric on the same generator with unchanged inputs
\* leaves the fabric cell list, the edge cell list, the placed pins and the
\* statistics equal to what they were after the first call.
C29_SecondGenerationChangesNothing ==
    [][GenerateFabricAgain =>
          /\ cell_instances' = cell_instances
          /\ edge_cell_instances' = edge_cell_instances
          /\ placed_pins' = placed_pins
          /\ stats' = stats]_vars

=============================================================================
